---- MODULE Spec2Model ----
(***************************************************************************)
(* Model of the image-generation back end (src/main.py, src/services.py,   *)
(* src/models.py): the BytePlus request builder, the upstream-response     *)
(* normaliser with its server-sent-event parser, and the HTTP endpoints.   *)
(***************************************************************************)
EXTENDS Integers, Sequences, FiniteSets, TLC

VARIABLES
    response_text,  \* body handed to _parse_streaming_response, as its lines
    parsed,         \* what _parse_streaming_response returned for it
    pc,             \* where the handler of the request stands
    endpoint,       \* path the request was posted to
    request,        \* the request body, validated by its pydantic model
    image_index,    \* the image_index query parameter
    outbound,       \* the outbound HTTP calls issued for the request, in order
    inbound,        \* what came back for each outbound call, in order
    result,         \* what the service function of the endpoint returned
    http_response,  \* the response the endpoint gave
    generated_images, \* the list generate_images_with_seedream collects
    image_url,      \* the image_url local of generate_images_with_seedream
    session_state,  \* st.session_state of the dashboard
    mcp,            \* the MCPInterface object of the dashboard
    page,           \* what the dashboard has put on the page, in order
    handlers        \* the requests the back end is handling at one time

vars == <<response_text, parsed, pc, endpoint, request, image_index,
          outbound, inbound, result, http_response, generated_images,
          image_url, session_state, mcp, page, handlers>>

\* Longest event-stream body, in lines.
MaxLines == 5

\* Most words in a prompt.
MaxWords == 2

\* Largest max_images a request asks for.
MaxMaxImages == 11

\* Most items in the data list of an upstream response.
MaxData == 2

\* image_index ranges over -MaxIndex..MaxIndex.
MaxIndex == 3

\* Most prompts in a /generate request.
MaxPrompts == 2

\* Most blocks in an event stream of any JSON values.
MaxBlocks == 2

\* Most requests the back end handles at one time.
MaxHandlers == 2

\* Most calls of update_metrics in a row, and most failed ones among them.
MaxCalls == 102
MaxFailed == 1

\* Most notifications pending at one time.
MaxNotifications == 3

\* Most clicks on "Generate Images" in a session of the dashboard.
MaxRequests == 1

\* Python's None; json.loads yields it for the JSON literal null.
None == [none |-> TRUE]

\* No value yet: the call has not returned.
Pending == [pending |-> TRUE]

\* event_type before any event line was read (None in the code).
NoEventType == "<None>"

(***************************************************************************)
(* Text.  A Python str is the sequence of its characters.                  *)
(***************************************************************************)
UpperCase ==
    <<"A", "B", "C", "D", "E", "F", "G", "H", "I", "J", "K", "L", "M",
      "N", "O", "P", "Q", "R", "S", "T", "U", "V", "W", "X", "Y", "Z">>

LowerCase ==
    <<"a", "b", "c", "d", "e", "f", "g", "h", "i", "j", "k", "l", "m",
      "n", "o", "p", "q", "r", "s", "t", "u", "v", "w", "x", "y", "z">>

\* str.lower()
Lower(s) ==
    [i \in 1..Len(s) |->
        IF \E k \in 1..Len(UpperCase) : UpperCase[k] = s[i]
        THEN LowerCase[CHOOSE k \in 1..Len(UpperCase) : UpperCase[k] = s[i]]
        ELSE s[i]]

\* sub in s
Contains(s, sub) ==
    \E i \in 1..(Len(s) - Len(sub) + 1) : SubSeq(s, i, i + Len(sub) - 1) = sub

Digits == <<"0", "1", "2", "3", "4", "5", "6", "7", "8", "9">>

\* str(n) of an int, as an f-string formats it
RECURSIVE IntToStr(_)
IntToStr(n) ==
    IF n < 0 THEN <<"-">> \o IntToStr(-n)
    ELSE IF n < 10 THEN <<Digits[n + 1]>>
    ELSE IntToStr(n \div 10) \o <<Digits[(n % 10) + 1]>>

\* The words prompts are made of.
W_cat ==
    <<"c", "a", "t">>

W_Series ==
    <<"S", "e", "r", "i", "e", "s">>

W_illustrations ==
    <<"i", "l", "l", "u", "s", "t", "r", "a", "t", "i", "o", "n", "s">>

W_IMAGES ==
    <<"I", "M", "A", "G", "E", "S">>

W_Variations ==
    <<"V", "a", "r", "i", "a", "t", "i", "o", "n", "s">>

W_different ==
    <<"d", "i", "f", "f", "e", "r", "e", "n", "t">>

W_serie ==
    <<"s", "e", "r", "i", "e">>

W_image ==
    <<"i", "m", "a", "g", "e">>

Words == {W_cat, W_Series, W_illustrations, W_IMAGES, W_Variations, W_different, W_serie, W_image}

RECURSIVE JoinWords(_)
JoinWords(ws) ==
    IF ws = <<>> THEN <<>>
    ELSE IF Len(ws) = 1 THEN Head(ws)
    ELSE Head(ws) \o <<" ">> \o JoinWords(Tail(ws))

SeqsUpTo(S, n) == UNION {[1..k -> S] : k \in 0..n}

Prompts == {JoinWords(ws) : ws \in SeqsUpTo(Words, MaxWords)}

(***************************************************************************)
(* BytePlusImageRequest and its field types                                *)
(***************************************************************************)
DefaultModel == "ep-20250911111250-zd7zw"

SequentialImageGeneration == {"disabled", "auto"}
ResponseFormat == {"url", "b64_json"}
ImageSize == {"1K", "2K", "4K"}

\* Optional[int]
IntValue(n) == [int |-> n]

\* SequentialImageGenerationOptions
Options(max_images) == [max_images |-> max_images]

\* Optional[Union[str, List[str]]]
SingleImage(url) == [str |-> url]
ImageList(urls) == [list |-> urls]

MaxImagesValues == {None} \cup {IntValue(n) : n \in -1..MaxMaxImages}

OptionsValues == {None} \cup {Options(m) : m \in MaxImagesValues}

ImageValues == {None, SingleImage("u1"), ImageList(<<"u1", "u2">>)}

BytePlusImageRequest(prompts, options, images, formats, sizes, flags) ==
    [model : {DefaultModel},
     prompt : prompts,
     image : images,
     sequential_image_generation : SequentialImageGeneration,
     sequential_image_generation_options : options,
     response_format : formats,
     size : sizes,
     stream : flags,
     watermark : flags]

Requests ==
    BytePlusImageRequest(Prompts, OptionsValues, ImageValues, ResponseFormat,
                         ImageSize, BOOLEAN)

(***************************************************************************)
(* _format_prompt_for_multiple_images and the payload of                   *)
(* generate_byteplus_images                                                *)
(***************************************************************************)
K_series ==
    <<"s", "e", "r", "i", "e", "s">>

K_illustrations ==
    <<"i", "l", "l", "u", "s", "t", "r", "a", "t", "i", "o", "n", "s">>

K_images ==
    <<"i", "m", "a", "g", "e", "s">>

K_variations ==
    <<"v", "a", "r", "i", "a", "t", "i", "o", "n", "s">>

K_different ==
    <<"d", "i", "f", "f", "e", "r", "e", "n", "t">>

series_keywords == <<K_series, K_illustrations, K_images, K_variations, K_different>>

TemplateHead ==
    <<"G", "e", "n", "e", "r", "a", "t", "e", " ", "a", " ", "s", "e", "r",
      "i", "e", "s", " ", "o", "f", " ">>

TemplateMiddle ==
    <<" ", "c", "o", "h", "e", "r", "e", "n", "t", " ", "i", "l", "l", "u",
      "s", "t", "r", "a", "t", "i", "o", "n", "s", " ", "o", "f", " ">>

TemplateTail ==
    <<",", " ", "e", "a", "c", "h", " ", "s", "h", "o", "w", "i", "n", "g",
      " ", "d", "i", "f", "f", "e", "r", "e", "n", "t", " ", "p", "e", "r",
      "s", "p", "e", "c", "t", "i", "v", "e", "s", " ", "o", "r", " ", "v",
      "a", "r", "i", "a", "t", "i", "o", "n", "s", ",", " ", "p", "r", "e",
      "s", "e", "n", "t", "e", "d", " ", "i", "n", " ", "a", " ", "u", "n",
      "i", "f", "i", "e", "d", " ", "s", "t", "y", "l", "e", ".">>

\* _format_prompt_for_multiple_images comparing the prompt as it is written.
_format_prompt_for_multiple_images_CaseSensitive(prompt, max_images) ==
    IF \E k \in 1..Len(series_keywords) : Contains(prompt, series_keywords[k])
    THEN prompt
    ELSE TemplateHead \o IntToStr(max_images) \o TemplateMiddle \o prompt
         \o TemplateTail

_format_prompt_for_multiple_images(prompt, max_images) ==
    IF \E k \in 1..Len(series_keywords) :
           Contains(Lower(prompt), series_keywords[k])
    THEN prompt
    ELSE TemplateHead \o IntToStr(max_images) \o TemplateMiddle \o prompt
         \o TemplateTail

is_multiple_images(req) ==
    /\ req.sequential_image_generation = "auto"
    /\ req.sequential_image_generation_options # None
    /\ req.sequential_image_generation_options.max_images # None
    /\ req.sequential_image_generation_options.max_images.int > 1

formatted_prompt(req) ==
    IF is_multiple_images(req)
    THEN _format_prompt_for_multiple_images(
             req.prompt, req.sequential_image_generation_options.max_images.int)
    ELSE req.prompt

\* payload adding the options only when they hold a max_images.
payload_OptionsWithValue(req) ==
    [model |-> req.model,
     prompt |-> formatted_prompt(req),
     sequential_image_generation |-> req.sequential_image_generation,
     response_format |-> req.response_format,
     size |-> req.size,
     stream |-> req.stream,
     watermark |-> req.watermark]
    @@ (IF req.image # None THEN [image |-> req.image] ELSE <<>>)
    @@ (IF req.sequential_image_generation_options # None
           /\ req.sequential_image_generation_options.max_images # None
        THEN [sequential_image_generation_options |->
                 [max_images |-> req.sequential_image_generation_options.max_images]]
        ELSE <<>>)

\* payload sending the reference image(s) always as a list.
payload_ImageAsList(req) ==
    [model |-> req.model,
     prompt |-> formatted_prompt(req),
     sequential_image_generation |-> req.sequential_image_generation,
     response_format |-> req.response_format,
     size |-> req.size,
     stream |-> req.stream,
     watermark |-> req.watermark]
    @@ (IF req.image # None
        THEN [image |-> IF "str" \in DOMAIN req.image
                        THEN ImageList(<<req.image.str>>) ELSE req.image]
        ELSE <<>>)
    @@ (IF req.sequential_image_generation_options # None
        THEN [sequential_image_generation_options |->
                 [max_images |-> req.sequential_image_generation_options.max_images]]
        ELSE <<>>)

\* The payload generate_byteplus_images posts upstream.
payload(req) ==
    [model |-> req.model,
     prompt |-> formatted_prompt(req),
     sequential_image_generation |-> req.sequential_image_generation,
     response_format |-> req.response_format,
     size |-> req.size,
     stream |-> req.stream,
     watermark |-> req.watermark]
    @@ (IF req.image # None THEN [image |-> req.image] ELSE <<>>)
    @@ (IF req.sequential_image_generation_options # None
        THEN [sequential_image_generation_options |->
                 [max_images |-> req.sequential_image_generation_options.max_images]]
        ELSE <<>>)

GenerationsUrl == "https://ark.ap-southeast.bytepluses.com/api/v3/images/generations"

Post(url, json) == [method |-> "POST", url |-> url, json |-> json]
Get(url) == [method |-> "GET", url |-> url]

(***************************************************************************)
(* Lines of an event-stream body.  A body is the sequence of its lines; an *)
(* empty line is what separates two blocks ('\n\n' in the text).           *)
(***************************************************************************)
BlankLine == [kind |-> "blank"]
EventLine(name) == [kind |-> "event", name |-> name]
DataLine(data_str) == [kind |-> "data", data_str |-> data_str]

\* The text after 'data: ': the [DONE] marker, text json.loads rejects, or
\* the text of a JSON value.
DoneMarker == [form |-> "done"]
Malformed == [form |-> "malformed"]
JsonText(value) == [form |-> "json", value |-> value]

PartialSucceeded == "image_generation.partial_succeeded"
Completed == "image_generation.completed"
OtherEvent == "image_generation.partial_failed"

Usage1 == [generated_images |-> 1, output_tokens |-> 10, total_tokens |-> 10]
Usage2 == [generated_images |-> 2, output_tokens |-> 20, total_tokens |-> 20]

EventNames == {PartialSucceeded, Completed, OtherEvent}

\* The JSON objects data lines carry: an image, a usage record, an object
\* with all three keys, and one with no size and a null usage.
JsonValues ==
    { [url |-> "a", size |-> "1x1"],
      [usage |-> Usage1],
      [url |-> "b", size |-> "2x2", usage |-> Usage2],
      [url |-> "a", usage |-> None] }

Lines ==
    {BlankLine}
    \cup {EventLine(n) : n \in EventNames}
    \cup {DataLine(DoneMarker), DataLine(Malformed)}
    \cup {DataLine(JsonText(v)) : v \in JsonValues}

(***************************************************************************)
(* _parse_streaming_response                                               *)
(***************************************************************************)

\* response_text.strip().split('\n\n'): the blocks of lines between blank
\* lines.  acc is the block being collected.
RECURSIVE SplitBlocks(_, _)
SplitBlocks(lines, acc) ==
    IF lines = <<>> THEN <<acc>>
    ELSE IF Head(lines).kind = "blank"
         THEN <<acc>> \o SplitBlocks(Tail(lines), <<>>)
         ELSE SplitBlocks(Tail(lines), Append(acc, Head(lines)))

\* json.loads(data_str)
json_loads(data_str) ==
    IF data_str.form = "json" THEN [ok |-> TRUE, value |-> data_str.value]
    ELSE [ok |-> FALSE]

\* ParseLine with a decoding error discarding the data read so far.
ParseLine_ResetOnError(st, line) ==
    IF line.kind = "event"
    THEN [st EXCEPT !.event_type = line.name]
    ELSE IF line.kind = "data"
    THEN IF line.data_str = DoneMarker THEN st
         ELSE IF json_loads(line.data_str).ok
              THEN [st EXCEPT !.data = json_loads(line.data_str).value]
              ELSE [st EXCEPT !.data = None]
    ELSE st

\* One pass of the loop over the lines of a block: an event line names the
\* event type; a data line that is [DONE] or that json.loads rejects is
\* skipped with continue, any other data line replaces data.
ParseLine(st, line) ==
    IF line.kind = "event"
    THEN [st EXCEPT !.event_type = line.name]
    ELSE IF line.kind = "data"
    THEN IF line.data_str = DoneMarker THEN st
         ELSE IF json_loads(line.data_str).ok
              THEN [st EXCEPT !.data = json_loads(line.data_str).value]
              ELSE st
    ELSE st

RECURSIVE ParseLines(_, _)
ParseLines(lines, st) ==
    IF lines = <<>> THEN st
    ELSE ParseLines(Tail(lines), ParseLine(st, Head(lines)))

\* Parsed JSON values that are no object: a number, a string (as its
\* characters) and a list; an object is the record of its keys, {} the
\* empty one, and null is None.
JsonNumber(n) == [json_number |-> n]
JsonString(chars) == [json_string |-> chars]
JsonArray(items) == [json_array |-> items]

IsNumber(v) == "json_number" \in DOMAIN v
IsString(v) == "json_string" \in DOMAIN v
IsArray(v) == "json_array" \in DOMAIN v
IsObject(v) == v # None /\ ~IsNumber(v) /\ ~IsString(v) /\ ~IsArray(v)

\* Python truthiness of a parsed JSON value.
Truthy(v) ==
    IF v = None THEN FALSE
    ELSE IF IsNumber(v) THEN v.json_number # 0
    ELSE IF IsString(v) THEN v.json_string # <<>>
    ELSE IF IsArray(v) THEN v.json_array # <<>>
    ELSE DOMAIN v # {}

\* The characters of the keys the parser looks for.
KeyChars(key) ==
    IF key = "url" THEN <<"u", "r", "l">>
    ELSE IF key = "size" THEN <<"s", "i", "z", "e">>
    ELSE <<"u", "s", "a", "g", "e">>

\* key in data: a key of an object, a substring of a string, an element of
\* a list; a number is not iterable and the test raises TypeError.
CanTestIn(data) == ~IsNumber(data)

In(key, data) ==
    IF IsString(data) THEN Contains(data.json_string, KeyChars(key))
    ELSE IF IsArray(data)
    THEN \E i \in 1..Len(data.json_array) : data.json_array[i] = key
    ELSE key \in DOMAIN data

TypeError == [text |-> "TypeError"]

\* ProcessBlock taking an image from a block of any event type.
ProcessBlock_AnyEvent(acc, event_block) ==
    LET st == ParseLines(event_block, [event_type |-> NoEventType, data |-> None])
        data == st.data
    IN  IF acc.raised # None THEN acc
        ELSE IF event_block # <<>> /\ st.event_type # NoEventType /\ Truthy(data)
           /\ IsObject(data) /\ "url" \in DOMAIN data /\ "size" \in DOMAIN data
        THEN [acc EXCEPT !.images = Append(@, [url |-> data.url, size |-> data.size])]
        ELSE IF event_block # <<>> /\ st.event_type = Completed /\ Truthy(data)
                /\ IsObject(data) /\ "usage" \in DOMAIN data
        THEN [acc EXCEPT !.usage = data.usage]
        ELSE acc

\* "Process different event types" for one block.  Once a block has
\* raised, the loop is left.  data["url"] and data["usage"] raise TypeError
\* on a string and on a list.
ProcessBlock(acc, event_block) ==
    LET st == ParseLines(event_block, [event_type |-> NoEventType, data |-> None])
        event_type == st.event_type
        data == st.data
    IN  IF acc.raised # None THEN acc
        ELSE IF event_block = <<>> THEN acc
        ELSE IF event_type # NoEventType /\ Truthy(data)
        THEN IF event_type = PartialSucceeded
             THEN IF ~CanTestIn(data) THEN [acc EXCEPT !.raised = TypeError]
                  ELSE IF In("url", data) /\ In("size", data)
                  THEN IF IsObject(data)
                       THEN [acc EXCEPT !.images =
                                 Append(@, [url |-> data.url, size |-> data.size])]
                       ELSE [acc EXCEPT !.raised = TypeError]
                  ELSE acc
             ELSE IF event_type = Completed
             THEN IF ~CanTestIn(data) THEN [acc EXCEPT !.raised = TypeError]
                  ELSE IF In("usage", data)
                  THEN IF IsObject(data)
                       THEN [acc EXCEPT !.usage = data.usage]
                       ELSE [acc EXCEPT !.raised = TypeError]
                  ELSE acc
             ELSE acc
        ELSE acc

RECURSIVE ProcessBlocks(_, _)
ProcessBlocks(acc, events) ==
    IF events = <<>> THEN acc
    ELSE ProcessBlocks(ProcessBlock(acc, Head(events)), Tail(events))

\* DefaultUsage that does not count the images.
DefaultUsage_NoCount(images) ==
    [generated_images |-> 0, output_tokens |-> 0, total_tokens |-> 0]

\* usage when no completion event set it.
DefaultUsage(images) ==
    [generated_images |-> Len(images), output_tokens |-> 0, total_tokens |-> 0]

\* BytePlusImageResponse(data=images, usage=usage): usage must be a dict.
ValidUsage(usage) == IsObject(usage)

\* The response returned, or [raised |-> the exception].
_parse_streaming_response(text) ==
    LET acc == ProcessBlocks([images |-> <<>>, usage |-> None, raised |-> None],
                             SplitBlocks(text, <<>>))
        usage == IF acc.usage = None THEN DefaultUsage(acc.images) ELSE acc.usage
    IN  IF acc.raised # None THEN [raised |-> acc.raised]
        ELSE IF ~ValidUsage(usage)
        THEN [raised |-> [text |-> "validation error for BytePlusImageResponse"]]
        ELSE [data |-> acc.images, usage |-> usage]

(***************************************************************************)
(* Properties of the event-stream parser, stated on the body itself.       *)
(***************************************************************************)
Max(S) == CHOOSE m \in S : \A x \in S : x <= m

IsBlank(text, i) == text[i].kind = "blank"

\* First lines of the blocks: a line that is not blank and follows a blank
\* line or starts the body.
BlockStarts(text) ==
    {i \in 1..Len(text) : ~IsBlank(text, i) /\ (i = 1 \/ IsBlank(text, i - 1))}

BlockEnd(text, i) ==
    CHOOSE j \in i..Len(text) :
        /\ \A k \in i..j : ~IsBlank(text, k)
        /\ (j = Len(text) \/ IsBlank(text, j + 1))

\* The non-empty blocks of a body, in arrival order.
BlocksOf(text) ==
    LET S == BlockStarts(text)
        start(k) == CHOOSE i \in S : Cardinality({t \in S : t <= i}) = k
    IN  [k \in 1..Cardinality(S) |-> SubSeq(text, start(k), BlockEnd(text, start(k)))]

IsJsonLine(line) == line.kind = "data" /\ line.data_str.form = "json"
IsMalformedLine(line) == line.kind = "data" /\ line.data_str = Malformed

\* Event type of a block: the name on its last event line.
BlockEventType(block) ==
    LET E == {i \in 1..Len(block) : block[i].kind = "event"}
    IN  IF E = {} THEN NoEventType ELSE block[Max(E)].name

\* Data object of a block: the value of its last data line holding JSON.
BlockData(block) ==
    LET D == {i \in 1..Len(block) : IsJsonLine(block[i])}
    IN  IF D = {} THEN None ELSE block[Max(D)].data_str.value

HasKeys(v, keys) == v # None /\ keys \subseteq DOMAIN v

IsImageBlock(block) ==
    /\ BlockEventType(block) = PartialSucceeded
    /\ HasKeys(BlockData(block), {"url", "size"})

IsUsageBlock(block) ==
    /\ BlockEventType(block) = Completed
    /\ HasKeys(BlockData(block), {"usage"})

ImageOf(block) == [url |-> BlockData(block).url, size |-> BlockData(block).size]

ExpectedImages(text) ==
    LET q == SelectSeq(BlocksOf(text), IsImageBlock)
    IN  [k \in 1..Len(q) |-> ImageOf(q[k])]

\* C2: the image list returned for an event-stream body is exactly the
\* {url, size} pairs of the partial_succeeded blocks whose data object has
\* both url and size, in arrival order; nothing else contributes an image
\* and a body with no such block yields the empty list.
C2_ImageList ==
    parsed # Pending => parsed.data = ExpectedImages(response_text)

\* Two images arrive in the order b, a and are returned in that order.
C2_Witness ==
    /\ parsed # Pending
    /\ Len(parsed.data) = 2
    /\ parsed.data[1].url = "b"
    /\ parsed.data[2].url = "a"

UsageBlocks(text) == SelectSeq(BlocksOf(text), IsUsageBlock)

LastUsage(text) == BlockData(UsageBlocks(text)[Len(UsageBlocks(text))]).usage

ZeroUsage(n) == [generated_images |-> n, output_tokens |-> 0, total_tokens |-> 0]

\* C3 as claimed: usage is the usage value of the last completed block that
\* carries a usage field; with no such block it is the zero record counting
\* the images returned.
C3_UsageAsClaimed ==
    parsed # Pending =>
        parsed.usage = IF UsageBlocks(response_text) = <<>>
                       THEN ZeroUsage(Len(parsed.data))
                       ELSE LastUsage(response_text)

\* C3 amended: usage is the usage value of the last completed block that
\* carries a usage field when that value is not null; when no completed
\* block carries usage, or the last such value is null, it is the zero
\* record counting the images returned.
C3_Usage ==
    parsed # Pending =>
        parsed.usage = IF UsageBlocks(response_text) = <<>>
                          \/ LastUsage(response_text) = None
                       THEN ZeroUsage(Len(parsed.data))
                       ELSE LastUsage(response_text)

\* Two completed blocks carry usage, Usage1 then Usage2: the later one wins.
C3_Witness ==
    /\ parsed # Pending
    /\ Len(UsageBlocks(response_text)) = 2
    /\ BlockData(UsageBlocks(response_text)[1]).usage = Usage1
    /\ parsed.usage = Usage2

HasMalformedLine(block) == \E i \in 1..Len(block) : IsMalformedLine(block[i])

\* The lines of a sequence of blocks, one blank line between two blocks.
RECURSIVE JoinBlocks(_)
JoinBlocks(blocks) ==
    IF blocks = <<>> THEN <<>>
    ELSE IF Len(blocks) = 1 THEN Head(blocks)
    ELSE Head(blocks) \o <<BlankLine>> \o JoinBlocks(Tail(blocks))

\* The body without the blocks that hold a malformed data line.
WithoutMalformedBlocks(text) ==
    LET ok(block) == ~HasMalformedLine(block)
    IN  JoinBlocks(SelectSeq(BlocksOf(text), ok))

\* The body without its malformed data lines.
WithoutMalformedLines(text) ==
    LET ok(line) == ~IsMalformedLine(line)
    IN  SelectSeq(text, ok)

\* C4 as claimed: a block holding a data line that is not valid JSON is
\* skipped as a whole; the result is the one the body gives without it.
C4_BlockSkippedAsClaimed ==
    parsed # Pending =>
        /\ parsed = _parse_streaming_response(WithoutMalformedBlocks(response_text))
        /\ parsed.data = ExpectedImages(WithoutMalformedBlocks(response_text))

\* C4 amended: a data line that is not valid JSON is skipped, the line and
\* not its block: parsing returns, and the result is the one the body gives
\* with the malformed lines taken out; when no block with a malformed line
\* also holds a JSON data line, that is the result without those blocks.
C4_MalformedLineSkipped ==
    parsed # Pending =>
        /\ parsed = _parse_streaming_response(WithoutMalformedLines(response_text))
        /\ parsed.data = ExpectedImages(WithoutMalformedLines(response_text))
        /\ (\A k \in 1..Len(BlocksOf(response_text)) :
               LET block == BlocksOf(response_text)[k]
               IN  HasMalformedLine(block) =>
                       \A i \in 1..Len(block) : ~IsJsonLine(block[i]))
           => parsed = _parse_streaming_response(WithoutMalformedBlocks(response_text))

\* A malformed data line sits in a block next to an image block, and the
\* image of the other block is returned.
C4_Witness ==
    /\ parsed # Pending
    /\ \E i \in 1..Len(response_text) : IsMalformedLine(response_text[i])
    /\ Len(BlocksOf(response_text)) = 2
    /\ HasMalformedLine(BlocksOf(response_text)[1])
    /\ Len(parsed.data) = 1

(***************************************************************************)
(* Parsing an upstream event-stream body.                                  *)
(***************************************************************************)
InitSSE ==
    /\ \E n \in 0..MaxLines : response_text \in [1..n -> Lines]
    /\ parsed = Pending
    /\ pc = "parsing"
    /\ endpoint = "/byteplus-generate"
    /\ request = None
    /\ image_index = 0
    /\ outbound = <<>>
    /\ inbound = <<>>
    /\ result = Pending
    /\ http_response = Pending
    /\ generated_images = <<>>
    /\ image_url = None
    /\ session_state = None
    /\ mcp = None
    /\ page = <<>>
    /\ handlers = <<>>

Parse ==
    /\ pc = "parsing"
    /\ parsed = Pending
    /\ parsed' = _parse_streaming_response(response_text)
    /\ pc' = "done"
    /\ UNCHANGED <<response_text, endpoint, request, image_index, outbound,
                   inbound, result, http_response>>
    /\ UNCHANGED <<generated_images, image_url>>
    /\ UNCHANGED <<session_state, mcp, page, handlers>>

NextSSE == Parse

SpecSSE == InitSSE /\ [][NextSSE]_vars

(***************************************************************************)
(* Parsing event streams whose data lines carry any JSON value.            *)
(***************************************************************************)
\* The JSON values a data line can carry: null, numbers, strings and lists
\* with and without the keys the parser looks for, the empty object, an
\* image, and objects whose usage is an object, null, or neither.
AnyJsonValues ==
    { None,
      JsonNumber(0), JsonNumber(5),
      JsonString(<<>>), JsonString(<<"o", "k">>),
      JsonString(    <<"u", "r", "l", " ", "s", "i", "z", "e", " ", "u", "s", "a", "g", "e">>),
      JsonArray(<<>>), JsonArray(<<"ok">>), JsonArray(<<"url", "size", "usage">>),
      <<>>,
      [url |-> "a", size |-> "1x1"],
      [usage |-> Usage1], [usage |-> None], [usage |-> <<>>],
      [usage |-> JsonNumber(5)], [usage |-> JsonArray(<<"ok">>)] }

\* A block: an event line, a data line and the blank line that ends it.
Blocks ==
    { <<EventLine(n), DataLine(JsonText(v)), BlankLine>> :
          n \in {PartialSucceeded, Completed}, v \in AnyJsonValues }

RECURSIVE Flatten(_)
Flatten(blocks) ==
    IF blocks = <<>> THEN <<>> ELSE Head(blocks) \o Flatten(Tail(blocks))

InitTotal ==
    /\ \E n \in 0..MaxBlocks :
          \E blocks \in [1..n -> Blocks] : response_text = Flatten(blocks)
    /\ parsed = Pending
    /\ pc = "parsing"
    /\ endpoint = "/byteplus-generate"
    /\ request = None
    /\ image_index = 0
    /\ outbound = <<>>
    /\ inbound = <<>>
    /\ result = Pending
    /\ http_response = Pending
    /\ generated_images = <<>>
    /\ image_url = None
    /\ session_state = None
    /\ mcp = None
    /\ page = <<>>
    /\ handlers = <<>>

SpecTotal == InitTotal /\ [][NextSSE]_vars

(***************************************************************************)
(* Building and posting the upstream payload.                              *)
(***************************************************************************)
BytePlusEndpoints == {"/byteplus-generate", "/byteplus-generate-image"}

\* generate_byteplus_images up to its requests.post: the payload is built
\* and posted.
SendGeneration ==
    /\ pc = "received"
    /\ endpoint \in BytePlusEndpoints
    /\ outbound' = Append(outbound, Post(GenerationsUrl, payload(request)))
    /\ pc' = "generating"
    /\ UNCHANGED <<response_text, parsed, endpoint, request, image_index,
                   inbound, result, http_response>>
    /\ UNCHANGED <<generated_images, image_url>>
    /\ UNCHANGED <<session_state, mcp, page, handlers>>

InitBuild ==
    /\ response_text = <<>>
    /\ parsed = Pending
    /\ pc = "received"
    /\ endpoint = "/byteplus-generate"
    /\ request \in Requests
    /\ image_index = 0
    /\ outbound = <<>>
    /\ inbound = <<>>
    /\ result = Pending
    /\ http_response = Pending
    /\ generated_images = <<>>
    /\ image_url = None
    /\ session_state = None
    /\ mcp = None
    /\ page = <<>>
    /\ handlers = <<>>

NextBuild == SendGeneration

SpecBuild == InitBuild /\ [][NextBuild]_vars

\* The payload of the generation call, once it has been posted.
SentPayload == outbound[1].json

MentionsSeriesKeyword(prompt) ==
    \/ Contains(Lower(prompt), K_series)
    \/ Contains(Lower(prompt), K_illustrations)
    \/ Contains(Lower(prompt), K_images)
    \/ Contains(Lower(prompt), K_variations)
    \/ Contains(Lower(prompt), K_different)

\* max_images of the request when it supplies one above 1, else 0.
SuppliedCount(req) ==
    IF req.sequential_image_generation_options = None THEN 0
    ELSE IF req.sequential_image_generation_options.max_images = None THEN 0
    ELSE IF req.sequential_image_generation_options.max_images.int > 1
         THEN req.sequential_image_generation_options.max_images.int
         ELSE 0

\* C1: with mode auto, a max_images above 1 and a prompt that mentions no
\* series keyword in any letter case, the prompt posted upstream is the
\* template around the number and the original prompt; in every other case
\* it is the original prompt.
C1_PromptRewriting ==
    pc = "generating" =>
        IF /\ request.sequential_image_generation = "auto"
           /\ SuppliedCount(request) > 1
           /\ ~MentionsSeriesKeyword(request.prompt)
        THEN /\ SentPayload.prompt =
                    TemplateHead \o IntToStr(SuppliedCount(request))
                    \o TemplateMiddle \o request.prompt \o TemplateTail
             /\ Contains(SentPayload.prompt, IntToStr(SuppliedCount(request)))
             /\ Contains(SentPayload.prompt, request.prompt)
        ELSE SentPayload.prompt = request.prompt

C1_RewrittenCat ==
    <<"G", "e", "n", "e", "r", "a", "t", "e", " ", "a", " ", "s", "e", "r",
      "i", "e", "s", " ", "o", "f", " ", "1", "1", " ", "c", "o", "h", "e",
      "r", "e", "n", "t", " ", "i", "l", "l", "u", "s", "t", "r", "a", "t",
      "i", "o", "n", "s", " ", "o", "f", " ", "c", "a", "t", ",", " ", "e",
      "a", "c", "h", " ", "s", "h", "o", "w", "i", "n", "g", " ", "d", "i",
      "f", "f", "e", "r", "e", "n", "t", " ", "p", "e", "r", "s", "p", "e",
      "c", "t", "i", "v", "e", "s", " ", "o", "r", " ", "v", "a", "r", "i",
      "a", "t", "i", "o", "n", "s", ",", " ", "p", "r", "e", "s", "e", "n",
      "t", "e", "d", " ", "i", "n", " ", "a", " ", "u", "n", "i", "f", "i",
      "e", "d", " ", "s", "t", "y", "l", "e", ".">>

\* The prompt 'cat' with mode auto and max_images 11 goes upstream rewritten.
C1_Witness ==
    /\ pc = "generating"
    /\ request.prompt = W_cat
    /\ request.sequential_image_generation = "auto"
    /\ SentPayload.prompt = C1_RewrittenCat

BaseKeys ==
    {"model", "prompt", "sequential_image_generation", "response_format",
     "size", "stream", "watermark"}

\* C10 as claimed: the payload holds sequential_image_generation_options
\* exactly when the request supplied a max_images value.
C10_OptionsIffMaxImages ==
    pc = "generating" =>
        ("sequential_image_generation_options" \in DOMAIN SentPayload
         <=> /\ request.sequential_image_generation_options # None
             /\ request.sequential_image_generation_options.max_images # None)

\* C10 amended: the payload always holds the seven base keys and no key
\* besides image and sequential_image_generation_options; it holds image
\* exactly when the request supplied reference image(s); it holds
\* sequential_image_generation_options exactly when the request supplied an
\* options object, and then with that object's max_images, null included.
C10_PayloadKeys ==
    pc = "generating" =>
        /\ BaseKeys \subseteq DOMAIN SentPayload
        /\ DOMAIN SentPayload \subseteq
               BaseKeys \cup {"image", "sequential_image_generation_options"}
        /\ "image" \in DOMAIN SentPayload <=> request.image # None
        /\ "sequential_image_generation_options" \in DOMAIN SentPayload
               <=> request.sequential_image_generation_options # None
        /\ "sequential_image_generation_options" \in DOMAIN SentPayload
               => SentPayload.sequential_image_generation_options =
                      [max_images |->
                          request.sequential_image_generation_options.max_images]

\* The request 'cat', mode disabled, no image, no options: the payload has
\* the seven base keys and nothing else.
C10_Witness ==
    /\ pc = "generating"
    /\ request.prompt = W_cat
    /\ request.sequential_image_generation = "disabled"
    /\ request.image = None
    /\ request.sequential_image_generation_options = None
    /\ DOMAIN SentPayload = BaseKeys

\* C11: the payload carries the request's model, size, response_format,
\* stream, watermark and sequential_image_generation unchanged; reference
\* image(s) go upstream as the request gave them, a single URL as a single
\* string and a list as the same list in the same order, whatever the mode;
\* with mode disabled the prompt is unchanged too.
C11_PassThrough ==
    pc = "generating" =>
        /\ SentPayload.model = request.model
        /\ SentPayload.size = request.size
        /\ SentPayload.response_format = request.response_format
        /\ SentPayload.stream = request.stream
        /\ SentPayload.watermark = request.watermark
        /\ SentPayload.sequential_image_generation =
               request.sequential_image_generation
        /\ request.image # None => SentPayload.image = request.image
        /\ request.sequential_image_generation = "disabled" =>
               SentPayload.prompt = request.prompt

\* Two reference URLs with mode disabled and the options of a series: both
\* URLs go upstream in their order and the prompt is not rewritten.
C11_Witness ==
    /\ pc = "generating"
    /\ request.image = ImageList(<<"u1", "u2">>)
    /\ request.sequential_image_generation = "disabled"
    /\ request.sequential_image_generation_options = Options(IntValue(3))
    /\ request.prompt = W_cat
    /\ SentPayload.image.list = <<"u1", "u2">>
    /\ SentPayload.prompt = W_cat

(***************************************************************************)
(* Upstream responses and their normalisation in generate_byteplus_images  *)
(***************************************************************************)

\* Image bytes: a well-formed image, or bytes that are no image.
PngOf(name) == [format |-> "png", image |-> name]
Junk == [format |-> "junk"]

\* Base64 text: the encoding of some bytes, or text b64decode rejects.
B64Of(bytes) == [encoded |-> bytes]
BrokenB64 == [encoded |-> None]

\* base64.b64decode
b64decode(text) ==
    IF text.encoded = None THEN [ok |-> FALSE]
    ELSE [ok |-> TRUE, bytes |-> text.encoded]

\* Image.open(...).verify() raising on bytes that are no image, but passing
\* any bytes.
IsValidImage_Always(bytes) == TRUE

\* Image.open(io.BytesIO(image_bytes)) and img.verify() pass.
IsValidImage(bytes) == bytes.format # "junk"

\* The items an upstream data list is made of.
Items ==
    { [url |-> "https://cdn/1.png", size |-> "1x1"],
      [url |-> "https://cdn/2.png", size |-> "2x2"],
      [b64_json |-> B64Of(PngOf("inline")), size |-> "1x1"],
      [b64_json |-> B64Of(Junk), size |-> "1x1"],
      [b64_json |-> BrokenB64, size |-> "1x1"],
      [size |-> "1x1"] }

DataLists == SeqsUpTo(Items, MaxData)

\* An event-stream body announcing the given images, then completion.
RECURSIVE StreamBody(_)
StreamBody(images) ==
    IF images = <<>>
    THEN <<EventLine(Completed), DataLine(JsonText([usage |-> Usage1])),
           BlankLine, DataLine(DoneMarker)>>
    ELSE <<EventLine(PartialSucceeded), DataLine(JsonText(Head(images))),
           BlankLine>> \o StreamBody(Tail(images))

StreamImages == {item \in Items : "url" \in DOMAIN item}

\* What requests.post can come back with: an exception, or a response.
TransportError == [kind |-> "exception", error |-> "ConnectionError"]

\* Values of the content-type header, as their characters; a response
\* with no such header gives the '' of headers.get('content-type', '').
ApplicationJson ==     <<"a", "p", "p", "l", "i", "c", "a", "t", "i", "o", "n", "/", "j", "s",
      "o", "n">>
TextEventStream ==     <<"t", "e", "x", "t", "/", "e", "v", "e", "n", "t", "-", "s", "t", "r",
      "e", "a", "m">>
TextEventStreamCharset ==
        <<"t", "e", "x", "t", "/", "e", "v", "e", "n", "t", "-", "s", "t", "r",
      "e", "a", "m", ";", " ", "c", "h", "a", "r", "s", "e", "t", "=", "u",
      "t", "f", "-", "8">>
NoContentType == <<>>

\* A response whose body is JSON text, and one whose body is event-stream
\* text, under the content-type it is sent with.
JsonReplyAs(content_type, body) ==
    [kind |-> "http", status_code |-> 200, content_type |-> content_type,
     json |-> body]

StreamReplyAs(content_type, text) ==
    [kind |-> "http", status_code |-> 200, content_type |-> content_type,
     text |-> text]

JsonReply(body) == JsonReplyAs(ApplicationJson, body)

StreamReply(text) == StreamReplyAs(TextEventStream, text)

ErrorReply(status_code) ==
    [kind |-> "http", status_code |-> status_code,
     content_type |-> ApplicationJson, text |-> <<"upstream error">>]

\* A line of text that starts with neither 'event: ' nor 'data: '.
TextLine == [kind |-> "text"]

\* response.text: a JSON body is one line of text.
response_text_of(reply) ==
    IF "text" \in DOMAIN reply THEN reply.text ELSE <<TextLine>>

\* An event stream whose first image event carries a number as its data.
NumberStream ==
    <<EventLine(PartialSucceeded), DataLine(JsonText(JsonNumber(5))), BlankLine,
      EventLine(Completed), DataLine(JsonText([usage |-> Usage1]))>>

TwoItems ==
    <<[url |-> "https://cdn/2.png", size |-> "2x2"],
      [url |-> "https://cdn/1.png", size |-> "1x1"]>>

\* The replies to a generation call: failures, JSON bodies with and without
\* data, usage and further keys, event streams, and bodies sent under
\* another content-type than their own.
GenerationReplies ==
    {TransportError, ErrorReply(429), ErrorReply(500),
     JsonReply([usage |-> Usage1])}
    \cup {JsonReply([data |-> d, usage |-> Usage1]) : d \in DataLists}
    \cup {StreamReply(StreamBody(d)) : d \in SeqsUpTo(StreamImages, MaxData)}
    \cup {JsonReply([data |-> TwoItems]),
          JsonReply([data |-> TwoItems, usage |-> Usage2, created |-> 1]),
          JsonReplyAs(NoContentType, [data |-> TwoItems, usage |-> Usage2]),
          JsonReplyAs(TextEventStream, [data |-> TwoItems, usage |-> Usage2]),
          StreamReplyAs(TextEventStreamCharset, StreamBody(TwoItems)),
          StreamReplyAs(ApplicationJson, StreamBody(TwoItems)),
          StreamReply(NumberStream)}

\* An exception, as its str() and the values formatted into it.
Raised(error) == [ok |-> FALSE, error |-> error]
Returned(value) == [ok |-> TRUE, value |-> value]

\* response.json(): event-stream text is no JSON document.
response_json(reply) ==
    IF "json" \in DOMAIN reply THEN Returned(reply.json)
    ELSE Raised([text |-> "JSONDecodeError"])

\* BytePlusImageResponse keeping the first item of data only.
BytePlusImageResponse_FirstItem(body) ==
    IF "data" \in DOMAIN body
    THEN Returned([data |-> SubSeq(body.data, 1, 1),
                   usage |-> IF "usage" \in DOMAIN body
                             THEN body.usage ELSE None])
    ELSE Raised([text |-> "validation error for BytePlusImageResponse"])

\* BytePlusImageResponse(**body): data is required, usage is optional and
\* None when absent, any other key is ignored.
BytePlusImageResponse(body) ==
    IF "data" \in DOMAIN body
    THEN Returned([data |-> body.data,
                   usage |-> IF "usage" \in DOMAIN body
                             THEN body.usage ELSE None])
    ELSE Raised([text |-> "validation error for BytePlusImageResponse"])

\* return _parse_streaming_response(response.text), or its exception.
parse_streaming(text) ==
    IF "raised" \in DOMAIN _parse_streaming_response(text)
    THEN Raised(_parse_streaming_response(text).raised)
    ELSE Returned(_parse_streaming_response(text))

\* NormalizeResponse reporting every failed call as a 500 with no body.
NormalizeResponse_FixedStatus(reply) ==
    IF reply.kind = "exception" THEN Raised([text |-> reply.error])
    ELSE IF reply.status_code = 200
    THEN IF Contains(reply.content_type, TextEventStream)
         THEN parse_streaming(response_text_of(reply))
         ELSE IF response_json(reply).ok
              THEN BytePlusImageResponse(response_json(reply).value)
              ELSE response_json(reply)
    ELSE Raised([text |-> "BytePlus API request failed with status code",
                 status_code |-> 500, body |-> <<>>])

\* NormalizeResponse choosing the parser by the stream flag of the request.
NormalizeResponse_ByStreamFlag(reply) ==
    IF reply.kind = "exception" THEN Raised([text |-> reply.error])
    ELSE IF reply.status_code = 200
    THEN IF request.stream
         THEN parse_streaming(response_text_of(reply))
         ELSE IF response_json(reply).ok
              THEN BytePlusImageResponse(response_json(reply).value)
              ELSE response_json(reply)
    ELSE Raised([text |-> "BytePlus API request failed with status code",
                 status_code |-> reply.status_code, body |-> reply.text])

\* generate_byteplus_images from the return of requests.post on.
NormalizeResponse(reply) ==
    IF reply.kind = "exception" THEN Raised([text |-> reply.error])
    ELSE IF reply.status_code = 200
    THEN IF Contains(reply.content_type, TextEventStream)
         THEN parse_streaming(response_text_of(reply))
         ELSE IF response_json(reply).ok
              THEN BytePlusImageResponse(response_json(reply).value)
              ELSE response_json(reply)
    ELSE Raised([text |-> "BytePlus API request failed with status code",
                 status_code |-> reply.status_code, body |-> reply.text])

(***************************************************************************)
(* The endpoints of main.py                                                *)
(***************************************************************************)
HTTPException(status_code, detail) == [status_code |-> status_code, detail |-> detail]

\* result.data[image_index] as Python indexes a list.
PyIndex(list, i) ==
    IF 0 <= i /\ i < Len(list) THEN Returned(list[i + 1])
    ELSE IF i < 0 /\ -i <= Len(list) THEN Returned(list[Len(list) + i + 1])
    ELSE Raised([text |-> "list index out of range"])

FilenameHead ==
    <<"i", "n", "l", "i", "n", "e", ";", " ", "f", "i", "l", "e", "n", "a",
      "m", "e", "=", "g", "e", "n", "e", "r", "a", "t", "e", "d", "_", "i",
      "m", "a", "g", "e", "_">>

FilenameTail ==
    <<".", "p", "n", "g">>

\* The Response of byteplus_image_generation_direct.
ImageResponse(image_bytes, content_type, index, total) ==
    [status_code |-> 200,
     content |-> image_bytes,
     media_type |-> content_type,
     headers |-> [content_disposition |->
                      FilenameHead \o IntToStr(index) \o FilenameTail,
                  cache_control |-> "no-cache",
                  x_image_index |-> IntToStr(index),
                  x_total_images |-> IntToStr(total)]]

\* "Validate that we have valid image data" and the return.
ServeImage(image_bytes, content_type, index, total) ==
    IF IsValidImage(image_bytes)
    THEN ImageResponse(image_bytes, content_type, index, total)
    ELSE HTTPException(500, [text |-> "Invalid image data"])

OutOfRange(index, total) ==
    HTTPException(400, [text |-> "Image index out of range. Available images",
                        image_index |-> index, first |-> 0, last |-> total - 1])

\* The image data chosen by the index: downloaded when it has a url,
\* decoded when it has b64_json.
UseImageData(picked, index, total) ==
    IF ~picked.ok THEN [respond |-> HTTPException(500, picked.error)]
    ELSE IF "url" \in DOMAIN picked.value
    THEN [download |-> picked.value.url]
    ELSE IF "b64_json" \in DOMAIN picked.value
    THEN IF b64decode(picked.value.b64_json).ok
         THEN [respond |-> ServeImage(b64decode(picked.value.b64_json).bytes,
                                      "image/png", index, total)]
         ELSE [respond |->
                  HTTPException(500, [text |-> "Failed to decode base64 image"])]
    ELSE [respond |-> HTTPException(500, [text |-> "No valid image data found"])]

\* byteplus_image_generation_direct checking the index before the empty list.
byteplus_image_generation_direct_IndexFirst(generated, index) ==
    IF ~generated.ok THEN [respond |-> HTTPException(500, generated.error)]
    ELSE IF index >= Len(generated.value.data)
    THEN [respond |-> OutOfRange(index, Len(generated.value.data))]
    ELSE IF Len(generated.value.data) = 0
    THEN [respond |-> HTTPException(404, [text |-> "No images generated"])]
    ELSE UseImageData(PyIndex(generated.value.data, index), index,
                      Len(generated.value.data))

\* byteplus_image_generation_direct accepting an index equal to the number
\* of images.
byteplus_image_generation_direct_OffByOne(generated, index) ==
    IF ~generated.ok THEN [respond |-> HTTPException(500, generated.error)]
    ELSE IF Len(generated.value.data) = 0
    THEN [respond |-> HTTPException(404, [text |-> "No images generated"])]
    ELSE IF index > Len(generated.value.data)
    THEN [respond |-> OutOfRange(index, Len(generated.value.data))]
    ELSE UseImageData(PyIndex(generated.value.data, index), index,
                      Len(generated.value.data))

\* byteplus_image_generation_direct from the return of
\* generate_byteplus_images up to its response or its download.
byteplus_image_generation_direct(generated, index) ==
    IF ~generated.ok THEN [respond |-> HTTPException(500, generated.error)]
    ELSE IF Len(generated.value.data) = 0
    THEN [respond |-> HTTPException(404, [text |-> "No images generated"])]
    ELSE IF index >= Len(generated.value.data)
    THEN [respond |-> OutOfRange(index, Len(generated.value.data))]
    ELSE UseImageData(PyIndex(generated.value.data, index), index,
                      Len(generated.value.data))

\* What requests.get(image_url) can come back with.
ImageReply(status_code, content, headers) ==
    [kind |-> "http", status_code |-> status_code, content |-> content,
     headers |-> headers]

DownloadReplies(url) ==
    {TransportError, ImageReply(404, Junk, <<>>)}
    \cup {ImageReply(200, c, h) :
              c \in {PngOf(url), Junk},
              h \in {<<>>, [content_type |-> "image/jpeg"]}}

\* byteplus_image_generation_direct from the return of requests.get on.
AfterDownload(reply, index, total) ==
    IF reply.kind = "exception" THEN HTTPException(500, [text |-> reply.error])
    ELSE IF reply.status_code # 200
    THEN HTTPException(500, [text |-> "Failed to download image from URL"])
    ELSE ServeImage(reply.content,
                    IF "content_type" \in DOMAIN reply.headers
                    THEN reply.headers.content_type ELSE "image/png",
                    index, total)

(***************************************************************************)
(* POST /plan: create_style_plan                                           *)
(***************************************************************************)

\* A str in a place where None can stand too.
Str(s) == [str |-> s]

\* A list in a place where None can stand too.
List(items) == [list |-> items]

\* A float, in thousandths.
Float(thousandths) == [float |-> thousandths]

IsDigit(c) == \E k \in 1..Len(Digits) : Digits[k] = c

DigitValue(c) == (CHOOSE k \in 1..Len(Digits) : Digits[k] = c) - 1

RECURSIVE DigitsValue(_)
DigitsValue(s) ==
    IF s = <<>> THEN 0
    ELSE DigitsValue(SubSeq(s, 1, Len(s) - 1)) * 10 + DigitValue(s[Len(s)])

RECURSIVE Pow10(_)
Pow10(n) == IF n = 0 THEN 1 ELSE 10 * Pow10(n - 1)

\* float(s) as pydantic applies it to a str given for a float field, for
\* plain decimal numerals of up to three decimals; other text is rejected.
float_of(s) ==
    LET dots == {i \in 1..Len(s) : s[i] = "."}
        dot == IF dots = {} THEN Len(s) + 1 ELSE CHOOSE i \in dots : TRUE
        whole == SubSeq(s, 1, dot - 1)
        frac == SubSeq(s, dot + 1, Len(s))
    IN  IF /\ Cardinality(dots) <= 1
           /\ \A i \in 1..Len(s) : s[i] = "." \/ IsDigit(s[i])
           /\ Len(whole) + Len(frac) > 0
           /\ Len(frac) <= 3
        THEN [ok |-> TRUE,
              value |-> Float(DigitsValue(whole) * 1000
                              + DigitsValue(frac) * Pow10(3 - Len(frac)))]
        ELSE [ok |-> FALSE]

S_0_8 ==
    <<"0", ".", "8">>

S_0_80 ==
    <<"0", ".", "8", "0">>

S_1 ==
    <<"1">>

S_high ==
    <<"h", "i", "g", "h">>

StrengthValues == {None, Str(S_0_8), Str(S_0_80), Str(S_1), Str(S_high)}

ConstraintValues ==
    {None, List(<<>>), List(<<"keep the face", "keep the hair">>)}

PhotoUrl == "https://photo/me.png"

ImageUrlValues == {None, Str(""), Str(PhotoUrl)}

\* StylePlanRequest; style, modifiers and target are not read.
StylePlanRequests ==
    [final_prompt : {None, Str(W_cat)},
     strength : StrengthValues,
     constraints : ConstraintValues,
     image_url : ImageUrlValues]

\* StylePlanOutput(...): prompt must be a str and strength must read as a
\* float; the fields not given take their defaults.
StylePlanOutput(prompt, strength, url, seedream_payload, seededit_payload) ==
    IF prompt = None
    THEN Raised([text |-> "validation error for StylePlanOutput: prompt"])
    ELSE IF strength = None \/ ~float_of(strength.str).ok
    THEN Raised([text |-> "validation error for StylePlanOutput: strength"])
    ELSE Returned([prompt |-> prompt,
                   strength |-> float_of(strength.str).value,
                   identity_id |-> None,
                   image_url |-> url,
                   seedream_payload |-> seedream_payload,
                   seededit_payload |-> seededit_payload])

\* create_style_plan putting the payload under seededit_payload always.
create_style_plan_AlwaysEdit(data) ==
    IF data.constraints = None
    THEN Raised([text |-> "'NoneType' object is not iterable"])
    ELSE StylePlanOutput(data.final_prompt, data.strength, data.image_url, <<>>,
                         [prompt |-> data.final_prompt,
                          strength |-> data.strength,
                          preserve_identity |-> data.constraints.list])

create_style_plan(data) ==
    IF data.constraints = None
    THEN Raised([text |-> "'NoneType' object is not iterable"])
    ELSE IF data.image_url = None
    THEN StylePlanOutput(data.final_prompt, data.strength, None,
                         [prompt |-> data.final_prompt,
                          strength |-> data.strength,
                          preserve_identity |-> data.constraints.list],
                         <<>>)
    ELSE StylePlanOutput(data.final_prompt, data.strength, data.image_url, <<>>,
                         [input_image |-> data.image_url,
                          prompt |-> data.final_prompt,
                          strength |-> data.strength,
                          preserve_identity |-> data.constraints.list])

\* An exception that leaves the handler: the server answers 500 for it.
Escaped(error) ==
    [status_code |-> 500, body |-> "Internal Server Error", escaped |-> error]

\* style_planner: the plan is returned, and an exception of
\* create_style_plan is not caught.
style_planner ==
    /\ pc = "received"
    /\ endpoint = "/plan"
    /\ result' = create_style_plan(request)
    /\ http_response' =
           IF result'.ok THEN [status_code |-> 200, body |-> result'.value]
           ELSE Escaped(result'.error)
    /\ pc' = "done"
    /\ UNCHANGED <<response_text, parsed, endpoint, request, image_index,
                   outbound, inbound, generated_images, image_url>>
    /\ UNCHANGED <<session_state, mcp, page, handlers>>

(***************************************************************************)
(* POST /generate-chara: generate_chara_image                              *)
(***************************************************************************)

\* CharaGeneratorRequest; identity_id is not read.
CharaGeneratorRequests ==
    [input_image : ImageUrlValues,
     final_prompt : {W_cat},
     strength : {Float(800)},
     seededit_payload : {<<>>, [preserve_identity |-> <<"keep the face">>]}]

\* The values the f-string of user_prompt is made of.
user_prompt(req) ==
    [final_prompt |-> req.final_prompt,
     constraints |-> IF "preserve_identity" \in DOMAIN req.seededit_payload
                     THEN req.seededit_payload.preserve_identity ELSE <<>>,
     strength |-> req.strength]

\* Python truthiness of an Optional[str].
StrTruthy(v) == v # None /\ v.str # ""

SeedEditModel == "seededit-3-0-i2i-250628"

\* model_id, read from the environment variable SEEDREAM_MODEL_ID.
model_id == "SEEDREAM_MODEL_ID"

\* The requests.post of call_seededit_for_chara_style_plan.
SeedEditCall(input_image, prompt) ==
    Post(GenerationsUrl,
         [model |-> SeedEditModel, prompt |-> prompt, image |-> input_image,
          response_format |-> "url", size |-> "adaptive", watermark |-> FALSE])

\* The requests.post of call_seedream_for_chara_style_plan.
SeedreamCall(prompt) ==
    Post(GenerationsUrl,
         [model |-> model_id, prompt |-> prompt, response_format |-> "url",
          size |-> "1024x1024", seed |-> 42, watermark |-> FALSE])

\* result["data"][0]["url"]
FirstUrl(json) ==
    IF "data" \notin DOMAIN json THEN Raised([text |-> "KeyError: 'data'"])
    ELSE IF json.data = <<>> THEN Raised([text |-> "list index out of range"])
    ELSE IF "url" \notin DOMAIN json.data[1] THEN Raised([text |-> "KeyError: 'url'"])
    ELSE Returned(json.data[1].url)

\* call_seededit_for_chara_style_plan from the return of requests.post on:
\* a status other than 200 falls off the end of the function, which
\* returns None.
call_seededit_for_chara_style_plan(reply) ==
    IF reply.kind = "exception" THEN Raised([text |-> reply.error])
    ELSE IF reply.status_code = 200
    THEN IF FirstUrl(reply.json).ok
         THEN Returned(<<FirstUrl(reply.json).value, reply.json>>)
         ELSE FirstUrl(reply.json)
    ELSE Returned(None)

\* call_seedream_for_chara_style_plan from the return of requests.post on.
call_seedream_for_chara_style_plan(reply) ==
    IF reply.kind = "exception" THEN Raised([text |-> reply.error])
    ELSE IF reply.status_code = 200
    THEN IF FirstUrl(reply.json).ok
         THEN Returned(<<FirstUrl(reply.json).value, reply.json>>)
         ELSE FirstUrl(reply.json)
    ELSE Raised([text |-> "Seedream API request failed with status code",
                 status_code |-> reply.status_code, body |-> reply.text])

\* generate_chara_image from the return of its call on; unpacking the None
\* of call_seededit_for_chara_style_plan raises TypeError.
generate_chara_image_return(req, reply) ==
    IF StrTruthy(req.input_image)
    THEN LET called == call_seededit_for_chara_style_plan(reply)
         IN  IF called.ok /\ called.value = None
             THEN Raised([text |-> "cannot unpack non-iterable NoneType object"])
             ELSE called
    ELSE call_seedream_for_chara_style_plan(reply)

CharaGeneratorResponse(output_image_url, seededit_response, seedream_response) ==
    [status_code |-> 200,
     body |-> [output_image_url |-> output_image_url,
               seededit_response |-> seededit_response,
               seedream_response |-> seedream_response]]

\* generate_character_image_with_seededit from the return of
\* generate_chara_image on; an exception of generate_chara_image is not
\* caught.
generate_character_image_with_seededit(req, generated) ==
    IF ~generated.ok THEN Escaped(generated.error)
    ELSE IF req.input_image = None
    THEN CharaGeneratorResponse(generated.value[1], None, generated.value[2])
    ELSE CharaGeneratorResponse(generated.value[1], generated.value[2], None)

\* What the upstream can answer a call of one of the older models with.
UpstreamReplies ==
    {TransportError, ErrorReply(500),
     JsonReply([data |-> <<>>]),
     JsonReply([data |-> <<[url |-> "https://cdn/1.png"]>>]),
     JsonReply([data |-> <<[url |-> "https://cdn/2.png"]>>])}

\* generate_chara_image calling the edit model and then the generate model.
generate_chara_image_BothModels ==
    /\ pc = "received"
    /\ endpoint = "/generate-chara"
    /\ outbound' =
           outbound \o <<SeedEditCall(request.input_image, user_prompt(request)),
                         SeedreamCall(user_prompt(request))>>
    /\ pc' = "chara"
    /\ UNCHANGED <<response_text, parsed, endpoint, request, image_index,
                   inbound, result, http_response, generated_images, image_url>>
    /\ UNCHANGED <<session_state, mcp, page, handlers>>

\* generate_chara_image up to its requests.post: the edit model is called
\* for a truthy input_image, the generate model otherwise.
generate_chara_image ==
    /\ pc = "received"
    /\ endpoint = "/generate-chara"
    /\ outbound' =
           Append(outbound,
                  IF StrTruthy(request.input_image)
                  THEN SeedEditCall(request.input_image.str, user_prompt(request))
                  ELSE SeedreamCall(user_prompt(request)))
    /\ pc' = "chara"
    /\ UNCHANGED <<response_text, parsed, endpoint, request, image_index,
                   inbound, result, http_response, generated_images, image_url>>
    /\ UNCHANGED <<session_state, mcp, page, handlers>>

\* requests.post returns or raises, generate_chara_image returns or raises,
\* and the endpoint answers.
CharaReply ==
    /\ pc = "chara"
    /\ \E reply \in UpstreamReplies :
          /\ inbound' = Append(inbound, reply)
          /\ result' = generate_chara_image_return(request, reply)
          /\ http_response' =
                 generate_character_image_with_seededit(request, result')
    /\ pc' = "done"
    /\ UNCHANGED <<response_text, parsed, endpoint, request, image_index,
                   outbound, generated_images, image_url>>
    /\ UNCHANGED <<session_state, mcp, page, handlers>>

\* GenerationRequest
GenerationRequests == {[prompts |-> ps] : ps \in SeqsUpTo({W_cat, W_image}, MaxPrompts)}

\* The BytePlus requests the endpoints are driven with.
EndpointRequests ==
    BytePlusImageRequest({W_cat}, {None, Options(IntValue(2))}, {None}, {"url"},
                         {"2K"}, BOOLEAN)

Init ==
    /\ response_text = <<>>
    /\ parsed = Pending
    /\ pc = "idle"
    /\ endpoint = "/"
    /\ request = None
    /\ image_index = 0
    /\ outbound = <<>>
    /\ inbound = <<>>
    /\ result = Pending
    /\ http_response = Pending
    /\ generated_images = <<>>
    /\ image_url = None
    /\ session_state = None
    /\ mcp = None
    /\ page = <<>>
    /\ handlers = <<>>

\* A request arrives and FastAPI calls the handler of its path; image_index
\* is 0 unless the query gives it.
Receive ==
    /\ pc = "idle"
    /\ \/ /\ endpoint' = "/generate"
          /\ request' \in GenerationRequests
          /\ image_index' = 0
       \/ /\ endpoint' = "/plan"
          /\ request' \in StylePlanRequests
          /\ image_index' = 0
       \/ /\ endpoint' = "/generate-chara"
          /\ request' \in CharaGeneratorRequests
          /\ image_index' = 0
       \/ /\ endpoint' = "/byteplus-generate"
          /\ request' \in EndpointRequests
          /\ image_index' = 0
       \/ /\ endpoint' = "/byteplus-generate-image"
          /\ request' \in EndpointRequests
          /\ image_index' \in -MaxIndex..MaxIndex
    /\ pc' = "received"
    /\ UNCHANGED <<response_text, parsed, outbound, inbound, result,
                   http_response>>
    /\ UNCHANGED <<generated_images, image_url>>
    /\ UNCHANGED <<session_state, mcp, page, handlers>>

\* generate_images_endpoint posting upstream before it looks at the prompts.
generate_images_endpoint_CallFirst ==
    /\ pc = "received"
    /\ endpoint = "/generate"
    /\ outbound' = Append(outbound, Post(GenerationsUrl, [prompt |-> request.prompts]))
    /\ http_response' =
           IF Len(request.prompts) = 0
           THEN HTTPException(400, [text |-> "At least one prompt is required."])
           ELSE HTTPException(500, [text |-> "upstream error"])
    /\ pc' = "done"
    /\ UNCHANGED <<response_text, parsed, endpoint, request, image_index,
                   inbound, result>>
    /\ UNCHANGED <<generated_images, image_url>>
    /\ UNCHANGED <<session_state, mcp, page, handlers>>

\* generate_images_endpoint: main.py does not import
\* generate_images_with_seedream, so calling it raises NameError, which the
\* handler turns into a 500.
generate_images_endpoint ==
    /\ pc = "received"
    /\ endpoint = "/generate"
    /\ http_response' =
           IF Len(request.prompts) = 0
           THEN HTTPException(400, [text |-> "At least one prompt is required."])
           ELSE HTTPException(500,
                    [text |-> "name 'generate_images_with_seedream' is not defined"])
    /\ pc' = "done"
    /\ UNCHANGED <<response_text, parsed, endpoint, request, image_index,
                   outbound, inbound, result>>
    /\ UNCHANGED <<generated_images, image_url>>
    /\ UNCHANGED <<session_state, mcp, page, handlers>>

\* byteplus_image_generation from the return of generate_byteplus_images on.
byteplus_image_generation(generated) ==
    IF generated.ok
    THEN [status_code |-> 200, body |-> generated.value]
    ELSE HTTPException(500, generated.error)

\* requests.post returns or raises; generate_byteplus_images normalises
\* what came back and the endpoint goes on to its response or, for a
\* url-backed image, to the download.
GenerationReply ==
    /\ pc = "generating"
    /\ \E reply \in GenerationReplies :
          LET generated == NormalizeResponse(reply)
              step == byteplus_image_generation_direct(generated, image_index)
          IN  /\ inbound' = Append(inbound, reply)
              /\ result' = generated
              /\ IF endpoint = "/byteplus-generate"
                 THEN /\ http_response' = byteplus_image_generation(generated)
                      /\ pc' = "done"
                      /\ UNCHANGED outbound
                 ELSE IF "download" \in DOMAIN step
                 THEN /\ outbound' = Append(outbound, Get(step.download))
                      /\ pc' = "downloading"
                      /\ UNCHANGED http_response
                 ELSE /\ http_response' = step.respond
                      /\ pc' = "done"
                      /\ UNCHANGED outbound
    /\ UNCHANGED <<response_text, parsed, endpoint, request, image_index>>
    /\ UNCHANGED <<generated_images, image_url>>
    /\ UNCHANGED <<session_state, mcp, page, handlers>>

\* requests.get returns or raises, and byteplus_image_generation_direct
\* answers.
DownloadReply ==
    /\ pc = "downloading"
    /\ \E reply \in DownloadReplies(outbound[Len(outbound)].url) :
          /\ inbound' = Append(inbound, reply)
          /\ http_response' =
                 AfterDownload(reply, image_index, Len(result.value.data))
    /\ pc' = "done"
    /\ UNCHANGED <<response_text, parsed, endpoint, request, image_index,
                   outbound, result>>
    /\ UNCHANGED <<generated_images, image_url>>
    /\ UNCHANGED <<session_state, mcp, page, handlers>>

Next ==
    \/ Receive
    \/ generate_images_endpoint
    \/ style_planner
    \/ generate_chara_image
    \/ CharaReply
    \/ SendGeneration
    \/ GenerationReply
    \/ DownloadReply

Spec == Init /\ [][Next]_vars

(***************************************************************************)
(* The direct-image responder and the order of validation and calls.       *)
(***************************************************************************)
Direct == endpoint = "/byteplus-generate-image"

Answered == pc = "done"

\* generate_byteplus_images returned a result.
Generated == result # Pending /\ result.ok

Images == result.value.data

Downloads == {i \in 1..Len(outbound) : outbound[i].method = "GET"}

\* C5: when the generation result has no images, the direct-image endpoint
\* answers 404 whatever image_index is, negative ones included, and issues
\* no image download.
C5_EmptyResult ==
    (Direct /\ Generated /\ Len(Images) = 0) =>
        /\ Downloads = {}
        /\ pc # "downloading"
        /\ Answered => http_response.status_code = 404

\* An empty result asked for with a negative index is answered 404.
C5_Witness ==
    /\ Direct /\ Answered /\ Generated
    /\ Len(Images) = 0
    /\ image_index < 0
    /\ http_response.status_code = 404

\* C6: for a result of n > 0 images, every image_index >= n is answered 400
\* with a detail naming the range 0 to n-1, and no image download is issued.
C6_IndexTooLarge ==
    (Direct /\ Generated /\ Len(Images) > 0 /\ image_index >= Len(Images)) =>
        /\ Downloads = {}
        /\ pc # "downloading"
        /\ Answered =>
              /\ http_response.status_code = 400
              /\ http_response.detail.image_index = image_index
              /\ http_response.detail.first = 0
              /\ http_response.detail.last = Len(Images) - 1

\* image_index 2 on a result of two images is answered 400 naming 0 to 1.
C6_Witness ==
    /\ Direct /\ Answered /\ Generated
    /\ Len(Images) = 2
    /\ image_index = 2
    /\ http_response.status_code = 400
    /\ http_response.detail.last = 1

\* The bytes of an image item as the endpoint obtains them: the content the
\* download of its url came back with, or its decoded b64_json.
ObtainedBytes(item) ==
    IF "url" \in DOMAIN item
    THEN inbound[Len(inbound)].content
    ELSE item.b64_json.encoded

\* C7 as claimed: a 200 of the direct-image endpoint is for an image_index
\* with 0 <= image_index < n, its body is the image at that zero-based
\* position, its headers give the index, the total, the inline file name and
\* no-cache; and every image_index outside 0..n-1 of a non-empty result is
\* answered 400.
C7_SuccessInRange ==
    (Direct /\ Answered /\ Generated) =>
        /\ http_response.status_code = 200 =>
              /\ 0 <= image_index /\ image_index < Len(Images)
              /\ http_response.content = ObtainedBytes(Images[image_index + 1])
              /\ http_response.headers.x_image_index = IntToStr(image_index)
              /\ http_response.headers.x_total_images = IntToStr(Len(Images))
              /\ http_response.headers.content_disposition =
                     FilenameHead \o IntToStr(image_index) \o FilenameTail
              /\ http_response.headers.cache_control = "no-cache"
        /\ (Len(Images) > 0 /\ (image_index < 0 \/ image_index >= Len(Images)))
               => http_response.status_code = 400

Failed500 == http_response.status_code = 500

\* C8: a 200 of the direct-image endpoint carries bytes that were obtained,
\* from a download answered 200 or by decoding base64, and that are a
\* well-formed image; a download that raised or was not answered 200,
\* base64 that does not decode, an item with neither url nor b64_json, and
\* bytes that are no image each end in a 500.
C8_NoUnvalidatedBytes ==
    (Direct /\ Answered) =>
        /\ http_response.status_code = 200 =>
              /\ http_response.content.format = "png"
              /\ \/ /\ Downloads # {}
                    /\ inbound[Len(inbound)].kind = "http"
                    /\ inbound[Len(inbound)].status_code = 200
                    /\ http_response.content = inbound[Len(inbound)].content
                 \/ /\ Downloads = {}
                    /\ \E k \in 1..Len(Images) :
                          /\ "b64_json" \in DOMAIN Images[k]
                          /\ Images[k].b64_json # BrokenB64
                          /\ http_response.content = Images[k].b64_json.encoded
        /\ Downloads # {} =>
              /\ inbound[Len(inbound)].kind = "exception" => Failed500
              /\ (inbound[Len(inbound)].kind = "http"
                  /\ inbound[Len(inbound)].status_code # 200) => Failed500
              /\ (inbound[Len(inbound)].kind = "http"
                  /\ inbound[Len(inbound)].content = Junk) => Failed500
        /\ (Generated /\ 0 <= image_index /\ image_index < Len(Images)) =>
              LET item == Images[image_index + 1]
              IN  /\ DOMAIN item \cap {"url", "b64_json"} = {} => Failed500
                  /\ ("url" \notin DOMAIN item /\ "b64_json" \in DOMAIN item
                      /\ item.b64_json \in {BrokenB64, B64Of(Junk)}) => Failed500

\* A download answered 200 with bytes that are no image ends in a 500.
C8_Witness ==
    /\ Direct /\ Answered
    /\ Downloads # {}
    /\ inbound[Len(inbound)].kind = "http"
    /\ inbound[Len(inbound)].status_code = 200
    /\ inbound[Len(inbound)].content = Junk
    /\ Failed500

\* C9 as claimed: a request answered 400 had no outbound call issued.
C9_NoCallBefore400 ==
    (Answered /\ http_response.status_code = 400) => outbound = <<>>

\* C9 amended: /generate with an empty prompt list is answered 400 with no
\* outbound call issued; the direct-image endpoint answers 400 for an
\* image_index at or beyond the number of generated images, after the one
\* generation call whose result the index is checked against and with no
\* image download issued; nothing else is answered 400.
C9_ValidationOrder ==
    /\ (Answered /\ endpoint = "/generate" /\ request.prompts = <<>>) =>
           /\ http_response.status_code = 400
           /\ outbound = <<>>
    /\ (Answered /\ http_response.status_code = 400) =>
           \/ endpoint = "/generate" /\ request.prompts = <<>> /\ outbound = <<>>
           \/ /\ Direct /\ Generated
              /\ image_index >= Len(Images)
              /\ Len(outbound) = 1
              /\ outbound[1].method = "POST"
              /\ outbound[1].url = GenerationsUrl

\* /generate with an empty prompt list is answered 400, nothing sent.
C9_Witness ==
    /\ Answered
    /\ endpoint = "/generate"
    /\ request.prompts = <<>>
    /\ http_response.status_code = 400
    /\ outbound = <<>>

(***************************************************************************)
(* generate_images_with_seedream: the two-stage pipeline of /generate      *)
(***************************************************************************)
ProductPhotoHead ==
    <<"G", "e", "n", "e", "r", "a", "t", "e", " ", "a", " ", "h", "i", "g",
      "h", "-", "q", "u", "a", "l", "i", "t", "y", ",", " ", "p", "r", "o",
      "d", "u", "c", "t", "i", "o", "n", "-", "g", "r", "a", "d", "e", " ",
      "p", "r", "o", "d", "u", "c", "t", " ", "p", "h", "o", "t", "o", " ",
      "o", "f", " ">>

EnhancePrompt ==
    "Enhance the quality of the image by improving accuracy of packaging or lighting."

\* The requests.post of call_seedream_api.
call_seedream_api_post(prompt) ==
    Post(GenerationsUrl,
         [model |-> model_id, prompt |-> ProductPhotoHead \o prompt,
          response_format |-> "url", size |-> "1024x1024", seed |-> 42,
          watermark |-> FALSE])

\* edit_image_with_seededit_post sending an image of its own choice.
edit_image_with_seededit_post_OwnImage(image_bytes, url, prompt) ==
    Post(GenerationsUrl,
         [model |-> SeedEditModel, prompt |-> EnhancePrompt,
          image |-> "https://cdn/1.png", response_format |-> "url",
          size |-> "adaptive", watermark |-> FALSE])

\* The requests.post of edit_image_with_seededit; image_bytes and prompt
\* are not sent.
edit_image_with_seededit_post(image_bytes, url, prompt) ==
    Post(GenerationsUrl,
         [model |-> SeedEditModel, prompt |-> EnhancePrompt, image |-> url,
          response_format |-> "url", size |-> "adaptive", watermark |-> FALSE])

\* call_seedream_api and edit_image_with_seededit from the return of
\* requests.post up to requests.get: the url of the first image, or the
\* exception raised.
ImageUrlOf(reply) ==
    IF reply.kind = "exception" THEN Raised([text |-> reply.error])
    ELSE IF reply.status_code = 200 THEN FirstUrl(reply.json)
    ELSE Raised([text |-> "API request failed with status code",
                 status_code |-> reply.status_code, body |-> reply.text])

\* What requests.get(image_url) can come back with in the pipeline; the
\* status is not looked at and .content is taken.
PipelineDownloads(url) ==
    {TransportError, ImageReply(404, Junk, <<>>), ImageReply(200, PngOf(url), <<>>)}

\* The prompt the loop of generate_images_with_seedream is at.
CurrentPrompt == request.prompts[Len(generated_images) + 1]

\* generate_images_with_seedream is called: with no prompt it returns the
\* empty list, else call_seedream_api posts for the first prompt.
generate_images_with_seedream ==
    /\ pc = "pipeline"
    /\ IF request.prompts = <<>>
       THEN /\ result' = Returned(<<>>)
            /\ pc' = "done"
            /\ UNCHANGED outbound
       ELSE /\ outbound' = Append(outbound, call_seedream_api_post(CurrentPrompt))
            /\ pc' = "seedream_post"
            /\ UNCHANGED result
    /\ UNCHANGED <<response_text, parsed, endpoint, request, image_index,
                   inbound, http_response, generated_images, image_url>>
    /\ UNCHANGED <<session_state, mcp, page, handlers>>

\* The post of call_seedream_api returns or raises; on a 200 with an image
\* url the image is fetched.
call_seedream_api_response ==
    /\ pc = "seedream_post"
    /\ \E reply \in UpstreamReplies :
          /\ inbound' = Append(inbound, reply)
          /\ IF ImageUrlOf(reply).ok
             THEN /\ image_url' = Str(ImageUrlOf(reply).value)
                  /\ outbound' = Append(outbound, Get(ImageUrlOf(reply).value))
                  /\ pc' = "seedream_get"
                  /\ UNCHANGED result
             ELSE /\ result' = ImageUrlOf(reply)
                  /\ pc' = "done"
                  /\ UNCHANGED <<outbound, image_url>>
    /\ UNCHANGED <<response_text, parsed, endpoint, request, image_index,
                   http_response, generated_images>>
    /\ UNCHANGED <<session_state, mcp, page, handlers>>

\* The get of call_seedream_api returns or raises; call_seedream_api
\* returns the bytes and the url, and edit_image_with_seededit posts.
call_seedream_api_download ==
    /\ pc = "seedream_get"
    /\ \E reply \in PipelineDownloads(image_url.str) :
          /\ inbound' = Append(inbound, reply)
          /\ IF reply.kind = "exception"
             THEN /\ result' = Raised([text |-> reply.error])
                  /\ pc' = "done"
                  /\ UNCHANGED outbound
             ELSE /\ outbound' =
                        Append(outbound,
                               edit_image_with_seededit_post(
                                   reply.content, image_url.str, CurrentPrompt))
                  /\ pc' = "seededit_post"
                  /\ UNCHANGED result
    /\ UNCHANGED <<response_text, parsed, endpoint, request, image_index,
                   http_response, generated_images, image_url>>
    /\ UNCHANGED <<session_state, mcp, page, handlers>>

\* The post of edit_image_with_seededit returns or raises; on a 200 with
\* an image url the edited image is fetched.
edit_image_with_seededit_response ==
    /\ pc = "seededit_post"
    /\ \E reply \in UpstreamReplies :
          /\ inbound' = Append(inbound, reply)
          /\ IF ImageUrlOf(reply).ok
             THEN /\ image_url' = Str(ImageUrlOf(reply).value)
                  /\ outbound' = Append(outbound, Get(ImageUrlOf(reply).value))
                  /\ pc' = "seededit_get"
                  /\ UNCHANGED result
             ELSE /\ result' = ImageUrlOf(reply)
                  /\ pc' = "done"
                  /\ UNCHANGED <<outbound, image_url>>
    /\ UNCHANGED <<response_text, parsed, endpoint, request, image_index,
                   http_response, generated_images>>
    /\ UNCHANGED <<session_state, mcp, page, handlers>>

\* The get of edit_image_with_seededit returns or raises; the edited url
\* is appended, and the loop goes on to the next prompt or returns.
edit_image_with_seededit_download ==
    /\ pc = "seededit_get"
    /\ \E reply \in PipelineDownloads(image_url.str) :
          /\ inbound' = Append(inbound, reply)
          /\ IF reply.kind = "exception"
             THEN /\ result' = Raised([text |-> reply.error])
                  /\ pc' = "done"
                  /\ UNCHANGED <<outbound, generated_images>>
             ELSE /\ generated_images' = Append(generated_images, image_url.str)
                  /\ IF Len(generated_images') < Len(request.prompts)
                     THEN /\ outbound' =
                                Append(outbound,
                                       call_seedream_api_post(
                                           request.prompts[Len(generated_images') + 1]))
                          /\ pc' = "seedream_post"
                          /\ UNCHANGED result
                     ELSE /\ result' = Returned(generated_images')
                          /\ pc' = "done"
                          /\ UNCHANGED outbound
    /\ UNCHANGED <<response_text, parsed, endpoint, request, image_index,
                   http_response, image_url>>
    /\ UNCHANGED <<session_state, mcp, page, handlers>>

\* generate_images_with_seedream called on a list of prompts, as a caller
\* that imports it calls it.
InitPipeline ==
    /\ response_text = <<>>
    /\ parsed = Pending
    /\ pc = "pipeline"
    /\ endpoint = "/"
    /\ request \in GenerationRequests
    /\ image_index = 0
    /\ outbound = <<>>
    /\ inbound = <<>>
    /\ result = Pending
    /\ http_response = Pending
    /\ generated_images = <<>>
    /\ image_url = None
    /\ session_state = None
    /\ mcp = None
    /\ page = <<>>
    /\ handlers = <<>>

NextPipeline ==
    \/ generate_images_with_seedream
    \/ call_seedream_api_response
    \/ call_seedream_api_download
    \/ edit_image_with_seededit_response
    \/ edit_image_with_seededit_download

SpecPipeline == InitPipeline /\ [][NextPipeline]_vars

(***************************************************************************)
(* Failures of the upstream call and the outbound calls of a request.      *)
(***************************************************************************)

\* C12: when the upstream answers the call of POST /byteplus-generate with
\* a status other than 200, generate_byteplus_images raises an error that
\* carries that status code and the raw body text, the endpoint answers 500
\* with that error as its detail, and the request has issued its one
\* upstream call and no second one.
C12_UpstreamFailure ==
    (/\ endpoint = "/byteplus-generate"
     /\ inbound # <<>>
     /\ inbound[1].kind = "http"
     /\ inbound[1].status_code # 200) =>
        /\ ~result.ok
        /\ result.error.status_code = inbound[1].status_code
        /\ result.error.body = inbound[1].text
        /\ Answered
        /\ http_response.status_code = 500
        /\ http_response.detail = result.error
        /\ Len(outbound) = 1
        /\ Len(inbound) = 1

\* The upstream answers 429: the endpoint answers 500 naming the 429.
C12_Witness ==
    /\ endpoint = "/byteplus-generate"
    /\ Answered
    /\ inbound = <<ErrorReply(429)>>
    /\ http_response.status_code = 500
    /\ http_response.detail.status_code = 429
    /\ http_response.detail.body = <<"upstream error">>
    /\ Len(outbound) = 1

\* The item image_index picks from a generated result is backed by a url.
PicksUrl ==
    /\ Generated
    /\ Len(Images) > 0
    /\ image_index < Len(Images)
    /\ PyIndex(Images, image_index).ok
    /\ "url" \in DOMAIN PyIndex(Images, image_index).value

ExternalEndpoints ==
    {"/generate", "/generate-chara", "/byteplus-generate",
     "/byteplus-generate-image"}

\* C13 as claimed: an answered request to an endpoint that contacts an
\* external service has issued exactly one outbound call.
C13_OneCallPerRequest ==
    (Answered /\ endpoint \in ExternalEndpoints) => Len(outbound) = 1

\* C13 amended: an answered request to /byteplus-generate or
\* /generate-chara has issued exactly one outbound call, a POST to the
\* generations URL; one to /byteplus-generate-image has issued that POST
\* and, exactly when the picked image is backed by a url, one GET of that
\* url after it, two calls in all; one to /generate or /plan has issued
\* none.
C13_OutboundCalls ==
    Answered =>
        /\ endpoint \in {"/generate", "/plan"} => outbound = <<>>
        /\ endpoint \in {"/generate-chara", "/byteplus-generate"} =>
               /\ Len(outbound) = 1
               /\ outbound[1].method = "POST"
               /\ outbound[1].url = GenerationsUrl
        /\ Direct =>
               /\ outbound[1].method = "POST"
               /\ outbound[1].url = GenerationsUrl
               /\ IF PicksUrl
                  THEN /\ Len(outbound) = 2
                       /\ outbound[2] = Get(PyIndex(Images, image_index).value.url)
                  ELSE Len(outbound) = 1

\* The direct-image endpoint serves a url-backed image after two calls.
C13_Witness ==
    /\ Direct /\ Answered
    /\ http_response.status_code = 200
    /\ Len(outbound) = 2
    /\ outbound[1].method = "POST"
    /\ outbound[2].method = "GET"

(***************************************************************************)
(* POST /generate and its pipeline.                                        *)
(***************************************************************************)

\* The call came back with an exception or a status other than 200.
FailedReply(reply) == reply.kind = "exception" \/ reply.status_code # 200

\* C14 as claimed: /generate answers 400 for an empty prompt list; for a
\* non-empty list none of whose upstream calls failed it answers 200 with
\* one URL per prompt; when an upstream call failed it answers 500.
C14_GenerateResult ==
    (Answered /\ endpoint = "/generate") =>
        /\ request.prompts = <<>> => http_response.status_code = 400
        /\ (/\ request.prompts # <<>>
            /\ \A i \in 1..Len(inbound) : ~FailedReply(inbound[i])) =>
               /\ http_response.status_code = 200
               /\ Len(http_response.body.images_url) = Len(request.prompts)
        /\ (\E i \in 1..Len(inbound) : FailedReply(inbound[i])) =>
               http_response.status_code = 500

\* The calls of the primary generation model and of the refinement model
\* among the outbound calls, by position.
GenerationCalls ==
    {k \in 1..Len(outbound) :
        outbound[k].method = "POST" /\ outbound[k].json.model = model_id}

RefinementCalls ==
    {k \in 1..Len(outbound) :
        outbound[k].method = "POST" /\ outbound[k].json.model = SeedEditModel}

\* The k-th call came back and made its function raise: an exception, or a
\* model call answered with a status other than 200 or without an image url.
CallRaised(k) ==
    /\ k <= Len(inbound)
    /\ \/ inbound[k].kind = "exception"
       \/ /\ outbound[k].method = "POST"
          /\ \/ inbound[k].status_code # 200
             \/ "data" \notin DOMAIN inbound[k].json
             \/ inbound[k].json.data = <<>>

\* The k-th call came back with the url of an image.
CallGave(k) == k <= Len(inbound) /\ ~CallRaised(k)

Chara == endpoint = "/generate-chara"

\* C16 as claimed: a request to /generate-chara calls exactly one model,
\* the edit model when input_image is a non-empty string and the generate
\* model when it is null; when it is answered 200 the output URL is the one
\* the upstream returned and the raw upstream response sits in
\* seededit_response if the edit model was called and in seedream_response
\* if the generate model was called, the other field being null - for every
\* input_image, the empty string included.
C16_CharaPathAndField ==
    (Chara /\ Answered) =>
        /\ Len(outbound) = 1
        /\ outbound[1].json.model \in {SeedEditModel, model_id}
        /\ request.input_image = None => outbound[1].json.model = model_id
        /\ StrTruthy(request.input_image) =>
               outbound[1].json.model = SeedEditModel
        /\ http_response.status_code = 200 =>
               /\ http_response.body.output_image_url = inbound[1].json.data[1].url
               /\ IF outbound[1].json.model = SeedEditModel
                  THEN /\ http_response.body.seededit_response = inbound[1].json
                       /\ http_response.body.seedream_response = None
                  ELSE /\ http_response.body.seedream_response = inbound[1].json
                       /\ http_response.body.seededit_response = None

Plan == endpoint = "/plan"

\* The plan returned, and the payload it carries.
PlanBody == http_response.body

PlanPayload ==
    IF request.image_url = None THEN PlanBody.seedream_payload
    ELSE PlanBody.seededit_payload

\* C17 as claimed: /plan issues no outbound call; the plan's prompt and
\* strength equal the request's final_prompt and strength and
\* preserve_identity lists its constraints in order; without image_url only
\* seedream_payload is populated and holds no input_image, with image_url
\* only seededit_payload is populated, with input_image equal to image_url,
\* and the plan's image_url is the request's.
C17_PlanAsClaimed ==
    (Plan /\ Answered) =>
        /\ outbound = <<>>
        /\ http_response.status_code = 200 =>
               /\ PlanBody.prompt = request.final_prompt
               /\ PlanBody.strength = request.strength
               /\ PlanPayload.preserve_identity = request.constraints.list
               /\ PlanBody.image_url = request.image_url
               /\ IF request.image_url = None
                  THEN /\ PlanBody.seededit_payload = <<>>
                       /\ "input_image" \notin DOMAIN PlanBody.seedream_payload
                  ELSE /\ PlanBody.seedream_payload = <<>>
                       /\ PlanBody.seededit_payload.input_image = request.image_url

\* The text is a plain decimal numeral.
IsNumeral(s) ==
    /\ \E i \in 1..Len(s) : IsDigit(s[i])
    /\ \A i \in 1..Len(s) : IsDigit(s[i]) \/ s[i] = "."
    /\ Cardinality({i \in 1..Len(s) : s[i] = "."}) <= 1

\* C17 amended: /plan issues no outbound call.  It returns a plan exactly
\* when the request has a final_prompt, a list of constraints and a
\* strength text that reads as a number; otherwise the handler raises.  The
\* plan's prompt is the request's final_prompt and its strength is the
\* number the request's strength text denotes ('0.8' and '0.80' both give
\* 0.8), while the payload carries the strength text as given, the prompt,
\* and the constraints in order as preserve_identity; without image_url
\* only seedream_payload is populated and holds no input_image, with
\* image_url (an empty one too) only seededit_payload is populated, with
\* input_image equal to image_url, and the plan's image_url is the
\* request's.
C17_PlanTransformation ==
    (Plan /\ Answered) =>
        /\ outbound = <<>>
        /\ inbound = <<>>
        /\ http_response.status_code = 200 <=>
               /\ request.final_prompt # None
               /\ request.constraints # None
               /\ request.strength # None
               /\ IsNumeral(request.strength.str)
        /\ http_response.status_code # 200 =>
               /\ http_response.status_code = 500
               /\ "escaped" \in DOMAIN http_response
        /\ http_response.status_code = 200 =>
               /\ PlanBody.prompt = request.final_prompt
               /\ PlanBody.strength = float_of(request.strength.str).value
               /\ request.strength \in {Str(S_0_8), Str(S_0_80)} =>
                      PlanBody.strength = Float(800)
               /\ request.strength = Str(S_1) => PlanBody.strength = Float(1000)
               /\ PlanBody.image_url = request.image_url
               /\ IF request.image_url = None
                  THEN /\ PlanBody.seededit_payload = <<>>
                       /\ DOMAIN PlanBody.seedream_payload =
                              {"prompt", "strength", "preserve_identity"}
                  ELSE /\ PlanBody.seedream_payload = <<>>
                       /\ DOMAIN PlanBody.seededit_payload =
                              {"input_image", "prompt", "strength",
                               "preserve_identity"}
                       /\ PlanBody.seededit_payload.input_image = request.image_url
               /\ PlanPayload.prompt = request.final_prompt
               /\ PlanPayload.strength = request.strength
               /\ PlanPayload.preserve_identity = request.constraints.list

\* A request with strength '0.80', two constraints and an image_url gets
\* a plan of strength 0.8 whose seededit_payload carries all of them.
C17_Witness ==
    /\ Plan /\ Answered
    /\ http_response.status_code = 200
    /\ request.strength = Str(S_0_80)
    /\ request.image_url = Str(PhotoUrl)
    /\ PlanBody.strength = Float(800)
    /\ PlanBody.seededit_payload.input_image = Str(PhotoUrl)
    /\ PlanBody.seededit_payload.preserve_identity =
           <<"keep the face", "keep the hair">>
    /\ PlanBody.seedream_payload = <<>>

(***************************************************************************)
(* Failures at the boundary of the endpoints, and termination.             *)
(***************************************************************************)

\* C18 as claimed: whatever fails while a request is handled, the answer
\* is one the endpoint handler built; no exception leaves a handler.
C18_CaughtAtBoundary ==
    Answered => "escaped" \notin DOMAIN http_response

\* What an error response tells besides the text of the exception.
FailureKind(response) ==
    [f \in DOMAIN response \ {"detail"} |-> response[f]]

\* The answer of the BytePlus endpoint at hand to a failed generation.
FailureResponse(reply) ==
    IF Direct
    THEN byteplus_image_generation_direct(NormalizeResponse(reply), image_index).respond
    ELSE byteplus_image_generation(NormalizeResponse(reply))

\* C19 as claimed: a BytePlus endpoint reports an outbound call that could
\* not connect as a failure kind of its own: its answer differs, in more
\* than the text of the message, from the answer it gives when the call
\* came back and something else failed.
C19_DistinctFailureKinds ==
    (/\ Answered
     /\ endpoint \in BytePlusEndpoints
     /\ inbound[1].kind = "exception") =>
        \A reply \in GenerationReplies :
            (reply.kind = "http" /\ ~NormalizeResponse(reply).ok) =>
                FailureKind(FailureResponse(reply)) # FailureKind(http_response)

\* The handler runs: each of its own steps is taken once it can be.  What
\* an upstream does is not the program's: requests.post and requests.get
\* are given no timeout, so nothing makes a call come back.
SpecLive ==
    /\ Init
    /\ [][Next]_vars
    /\ WF_vars(generate_images_endpoint)
    /\ WF_vars(style_planner)
    /\ WF_vars(generate_chara_image)
    /\ WF_vars(SendGeneration)

\* A request whose outbound call is under way.
Dispatched == pc \in {"generating", "downloading", "chara"}

\* C20 as claimed: every request whose outbound call is under way
\* eventually reaches its answer, upstream answering or not.
C20_EveryRequestTerminates == Dispatched ~> Answered

(***************************************************************************)
(* C22, C23: the two ways a 200 of the generation call is read             *)
(***************************************************************************)
\* The generation call of a BytePlus endpoint was answered 200.
Answered200 ==
    /\ endpoint \in BytePlusEndpoints
    /\ inbound # <<>>
    /\ inbound[1].kind = "http"
    /\ inbound[1].status_code = 200

EventStream200 == Contains(inbound[1].content_type, TextEventStream)

PreservedKeys == {"url", "b64_json", "size"}

\* C22: for a 200 of the generation call that is no event stream and whose
\* JSON body has a data list, generate_byteplus_images returns a result
\* whose data has the length and order of the upstream data, each item with
\* the url or b64_json and the size of the upstream item, and whose usage is
\* the upstream usage; /byteplus-generate answers 200 with that result.
C22_JsonRoundTrip ==
    (/\ Answered200
     /\ ~EventStream200
     /\ "json" \in DOMAIN inbound[1]
     /\ "data" \in DOMAIN inbound[1].json)
    => LET upstream == inbound[1].json
       IN  /\ result.ok
           /\ Len(result.value.data) = Len(upstream.data)
           /\ \A i \in 1..Len(upstream.data) :
                 \A key \in PreservedKeys \cap DOMAIN upstream.data[i] :
                    /\ key \in DOMAIN result.value.data[i]
                    /\ result.value.data[i][key] = upstream.data[i][key]
           /\ result.value.usage =
                  IF "usage" \in DOMAIN upstream THEN upstream.usage ELSE None
           /\ (endpoint = "/byteplus-generate" /\ Answered)
                  => /\ http_response.status_code = 200
                     /\ http_response.body = result.value

C22_Witness ==
    /\ endpoint = "/byteplus-generate"
    /\ Answered
    /\ Answered200
    /\ ~EventStream200
    /\ "json" \in DOMAIN inbound[1]
    /\ "data" \in DOMAIN inbound[1].json
    /\ Len(inbound[1].json.data) = 2
    /\ "created" \in DOMAIN inbound[1].json
    /\ http_response.status_code = 200
    /\ http_response.body.data[2].url = "https://cdn/1.png"

\* C23: a 200 of the generation call is read by the event-stream parser
\* exactly when its content-type contains text/event-stream and as JSON
\* otherwise, whatever the stream flag of the request; a result of either
\* path has the keys data and usage and /byteplus-generate answers with it.
C23_ParserByContentType ==
    Answered200
    => /\ result = IF EventStream200
                   THEN parse_streaming(response_text_of(inbound[1]))
                   ELSE IF response_json(inbound[1]).ok
                   THEN BytePlusImageResponse(response_json(inbound[1]).value)
                   ELSE response_json(inbound[1])
       /\ result.ok => DOMAIN result.value = {"data", "usage"}
       /\ (result.ok /\ endpoint = "/byteplus-generate" /\ Answered)
              => http_response = [status_code |-> 200, body |-> result.value]

\* A request that did not ask for a stream is answered by an event stream.
C23_Witness ==
    /\ Answered200
    /\ Answered
    /\ endpoint = "/byteplus-generate"
    /\ ~request.stream
    /\ EventStream200
    /\ inbound[1].content_type = TextEventStreamCharset
    /\ result.ok
    /\ Len(result.value.data) = 2
    /\ http_response.status_code = 200
(***************************************************************************)
(* C25: the event-stream parser on data that is no object                  *)
(***************************************************************************)
\* C25: for every response text, blocks whose data is valid JSON but no
\* object and completion events whose usage is no object included,
\* _parse_streaming_response returns a result and raises nothing.
C25_ParserTotal ==
    parsed # Pending => "raised" \notin DOMAIN parsed
(***************************************************************************)
(* Several requests in the back end at one time.  Every handler of main.py *)
(* works on its arguments and locals only; the module keeps no global that *)
(* a handler writes.  handlers[h] holds the locals of the h-th request, and *)
(* the steps of different requests interleave in any order.                *)
(***************************************************************************)
HandlerIds == 1..MaxHandlers

NewHandler ==
    [pc |-> "idle", endpoint |-> "/", request |-> None, image_index |-> 0,
     outbound |-> <<>>, inbound |-> <<>>, result |-> Pending,
     http_response |-> Pending]

\* Two requests, with and without options.
ConcurrentRequests ==
    {r \in EndpointRequests :
        r.stream /\ r.watermark /\ r.sequential_image_generation = "auto"}

ConcurrentIndexes == {0, 1}

ConcurrentReplies ==
    {TransportError, ErrorReply(500),
     JsonReply([data |-> <<>>, usage |-> Usage1]),
     JsonReply([data |-> TwoItems, usage |-> Usage2]),
     StreamReply(StreamBody(TwoItems))}

ConcurrentDownloads(url) ==
    {TransportError, ImageReply(200, PngOf(url), <<>>), ImageReply(200, Junk, <<>>)}

InitConcurrent ==
    /\ response_text = <<>>
    /\ parsed = Pending
    /\ pc = "idle"
    /\ endpoint = "/"
    /\ request = None
    /\ image_index = 0
    /\ outbound = <<>>
    /\ inbound = <<>>
    /\ result = Pending
    /\ http_response = Pending
    /\ generated_images = <<>>
    /\ image_url = None
    /\ session_state = None
    /\ mcp = None
    /\ page = <<>>
    /\ handlers = [h \in HandlerIds |-> NewHandler]

\* The request argument of the h-th handler, read from a slot all handlers
\* share once the first of them has filled it.
RequestOf_Shared(h) ==
    IF handlers[1].request = None THEN handlers[h].request
    ELSE handlers[1].request

\* The request argument of the h-th handler.
RequestOf(h) == handlers[h].request

\* FastAPI calls the handler of the path with the request of its own.
HandlerReceive(h) ==
    /\ handlers[h].pc = "idle"
    /\ \E e \in BytePlusEndpoints, r \in ConcurrentRequests, i \in ConcurrentIndexes :
          /\ e = "/byteplus-generate" => i = 0
          /\ handlers' = [handlers EXCEPT ![h] =
                 [@ EXCEPT !.pc = "received", !.endpoint = e, !.request = r,
                           !.image_index = i]]
    /\ UNCHANGED <<response_text, parsed, pc, endpoint, request, image_index,
                   outbound, inbound, result, http_response, generated_images,
                   image_url, session_state, mcp, page>>

\* generate_byteplus_images up to its requests.post.
HandlerSend(h) ==
    /\ handlers[h].pc = "received"
    /\ handlers' = [handlers EXCEPT ![h] =
           [@ EXCEPT !.pc = "generating",
                     !.outbound = Append(@, Post(GenerationsUrl,
                                                 payload(RequestOf(h))))]]
    /\ UNCHANGED <<response_text, parsed, pc, endpoint, request, image_index,
                   outbound, inbound, result, http_response, generated_images,
                   image_url, session_state, mcp, page>>

\* requests.post returns or raises in the h-th handler, which answers or
\* goes on to download the image.
HandlerReply(h) ==
    /\ handlers[h].pc = "generating"
    /\ \E reply \in ConcurrentReplies :
          LET own == handlers[h]
              generated == NormalizeResponse(reply)
              step == byteplus_image_generation_direct(generated, own.image_index)
          IN  handlers' = [handlers EXCEPT ![h] =
                 IF own.endpoint = "/byteplus-generate"
                 THEN [own EXCEPT !.inbound = Append(@, reply),
                                  !.result = generated,
                                  !.http_response =
                                      byteplus_image_generation(generated),
                                  !.pc = "done"]
                 ELSE IF "download" \in DOMAIN step
                 THEN [own EXCEPT !.inbound = Append(@, reply),
                                  !.result = generated,
                                  !.outbound = Append(@, Get(step.download)),
                                  !.pc = "downloading"]
                 ELSE [own EXCEPT !.inbound = Append(@, reply),
                                  !.result = generated,
                                  !.http_response = step.respond,
                                  !.pc = "done"]]
    /\ UNCHANGED <<response_text, parsed, pc, endpoint, request, image_index,
                   outbound, inbound, result, http_response, generated_images,
                   image_url, session_state, mcp, page>>

\* requests.get returns or raises in the h-th handler, which answers.
HandlerDownload(h) ==
    /\ handlers[h].pc = "downloading"
    /\ \E reply \in ConcurrentDownloads(handlers[h].outbound[2].url) :
          LET own == handlers[h]
          IN  handlers' = [handlers EXCEPT ![h] =
                 [own EXCEPT !.inbound = Append(@, reply),
                             !.http_response =
                                 AfterDownload(reply, own.image_index,
                                               Len(own.result.value.data)),
                             !.pc = "done"]]
    /\ UNCHANGED <<response_text, parsed, pc, endpoint, request, image_index,
                   outbound, inbound, result, http_response, generated_images,
                   image_url, session_state, mcp, page>>

NextConcurrent ==
    \E h \in HandlerIds :
        \/ HandlerReceive(h)
        \/ HandlerSend(h)
        \/ HandlerReply(h)
        \/ HandlerDownload(h)

SpecConcurrent == InitConcurrent /\ [][NextConcurrent]_vars

\* The inputs of a request: its path, body and query.
Inputs(h) == <<handlers[h].endpoint, handlers[h].request, handlers[h].image_index>>

\* C21: whatever other requests the back end is handling and however their
\* steps interleave, what a request sends upstream is built from its own
\* body only, and two requests with the same inputs that got the same
\* replies to their own calls stand at the same point with the same calls
\* issued, the same result and the same response.
C21_OwnInputsOnly ==
    \A h \in HandlerIds :
        /\ handlers[h].outbound # <<>>
               => handlers[h].outbound[1] =
                      Post(GenerationsUrl, payload(handlers[h].request))
        /\ \A g \in HandlerIds :
               (/\ Inputs(g) = Inputs(h)
                /\ handlers[g].inbound = handlers[h].inbound
                /\ Len(handlers[g].outbound) = Len(handlers[h].outbound))
               => handlers[g] = handlers[h]

\* One request has been answered 200 with both images while another, with
\* another body and path, is still waiting for its download.
C21_Witness ==
    /\ handlers[1].pc = "done"
    /\ handlers[1].endpoint = "/byteplus-generate"
    /\ handlers[1].http_response.status_code = 200
    /\ Len(handlers[1].http_response.body.data) = 2
    /\ handlers[2].pc = "downloading"
    /\ handlers[2].request # handlers[1].request
    /\ handlers[2].image_index = 1
(***************************************************************************)
(* The dashboard (src/streamlit_app.py, src/components): the metrics it    *)
(* keeps in st.session_state.  Response times are whole seconds; an        *)
(* average is kept as the sum and the count it was divided by.             *)
(***************************************************************************)
RECURSIVE Sum(_)
Sum(xs) == IF xs = <<>> THEN 0 ELSE Head(xs) + Sum(Tail(xs))

\* sum(xs) / len(xs)
Mean(xs) == [sum |-> Sum(xs), count |-> Len(xs)]

\* xs[-n:]
LastN(xs, n) == IF Len(xs) > n THEN SubSeq(xs, Len(xs) - n + 1, Len(xs)) ELSE xs

\* The response times update_metrics keeps.
Window == 100

\* st.session_state.api_metrics as streamlit_app.py initialises it.
api_metrics_init ==
    [total_requests |-> 0, successful_requests |-> 0, failed_requests |-> 0,
     avg_response_time |-> [sum |-> 0, count |-> 1], response_times |-> <<>>]

\* MCPInterface.update_metrics: the average is taken before the list is cut.
update_metrics(metrics, success, response_time) ==
    LET response_times == Append(metrics.response_times, response_time)
    IN  [total_requests |-> metrics.total_requests + 1,
         successful_requests |->
             metrics.successful_requests + (IF success THEN 1 ELSE 0),
         failed_requests |-> metrics.failed_requests + (IF success THEN 0 ELSE 1),
         avg_response_time |-> Mean(response_times),
         response_times |-> IF Len(response_times) > Window
                            THEN LastN(response_times, Window)
                            ELSE response_times]

\* PerformanceMonitor(max_history=1000): a deque drops its oldest entry.
max_history == 1000

DequeAppend(deque, x) == LastN(Append(deque, x), max_history)

\* PerformanceMonitor.initialize_metrics, without the deques of system
\* metrics, which are fed from psutil and read by the charts only.
performance_metrics_init ==
    [api_calls |-> <<>>, response_times |-> <<>>,
     generation_stats |->
         [total_images |-> 0, total_requests |-> 0, successful_requests |-> 0,
          failed_requests |-> 0, avg_generation_time |-> [sum |-> 0, count |-> 1]]]

\* PerformanceMonitor.record_api_call, reached through log_api_performance;
\* the timestamp and the sizes of call_data are left out.
record_api_call(metrics, name, response_time, success) ==
    LET response_times == DequeAppend(metrics.response_times, response_time)
        stats == metrics.generation_stats
    IN  [api_calls |-> DequeAppend(metrics.api_calls,
                          [endpoint |-> name, response_time |-> response_time,
                           success |-> success]),
         response_times |-> response_times,
         generation_stats |->
             [stats EXCEPT !.total_requests = @ + 1,
                           !.successful_requests = @ + (IF success THEN 1 ELSE 0),
                           !.failed_requests = @ + (IF success THEN 0 ELSE 1),
                           !.avg_generation_time = Mean(response_times)]]

\* st.session_state when the first script run has initialised it.
session_state_init ==
    [api_metrics |-> api_metrics_init,
     performance_metrics |-> performance_metrics_init,
     notifications |-> <<>>,
     generation_stats |->
         [total_images |-> 0, successful_generations |-> 0,
          failed_generations |-> 0],
     generation_results |-> <<>>,
     generation_type_selector |-> None,
     sequential_mode_selector |-> None,
     num_images |-> 1,
     advanced_settings |-> None,
     uploaded_images |-> <<>>,
     new_base_url |-> None]

(***************************************************************************)
(* Calls of MCPInterface.update_metrics in a row: a quick call that        *)
(* succeeds or a slow one that fails.                                      *)
(***************************************************************************)
QuickTime == 1
SlowTime == 120

InitWindow ==
    /\ response_text = <<>>
    /\ parsed = Pending
    /\ pc = "dashboard"
    /\ endpoint = "/"
    /\ request = None
    /\ image_index = 0
    /\ outbound = <<>>
    /\ inbound = <<>>
    /\ result = Pending
    /\ http_response = Pending
    /\ generated_images = <<>>
    /\ image_url = None
    /\ session_state = session_state_init
    /\ mcp = None
    /\ page = <<>>
    /\ handlers = <<>>

update_metrics_call ==
    /\ session_state.api_metrics.total_requests < MaxCalls
    /\ \E success \in BOOLEAN :
          /\ ~success => session_state.api_metrics.failed_requests < MaxFailed
          /\ session_state' =
                 [session_state EXCEPT !.api_metrics =
                      update_metrics(@, success,
                                     IF success THEN QuickTime ELSE SlowTime)]
    /\ UNCHANGED <<response_text, parsed, pc, endpoint, request, image_index,
                   outbound, inbound, result, http_response, generated_images,
                   image_url, mcp, page, handlers>>

NextWindow == update_metrics_call

SpecWindow == InitWindow /\ [][NextWindow]_vars

(***************************************************************************)
(* C27: the window of response times                                       *)
(***************************************************************************)
\* C27: after any calls of update_metrics, response_times holds at most 100
\* entries, every call leaves in it the entries held before followed by
\* the new one, less the oldest when there would be more than 100, and
\* avg_response_time is the mean of the entries held.
C27_HeldEntries ==
    LET metrics == session_state.api_metrics
    IN  /\ Len(metrics.response_times) <= Window
        /\ metrics.response_times # <<>>
               => metrics.avg_response_time.sum * Len(metrics.response_times)
                      = Sum(metrics.response_times) * metrics.avg_response_time.count

C27_MostRecent ==
    LET before == session_state.api_metrics.response_times
        after == session_state.api_metrics.response_times'
    IN  /\ Len(after) = IF Len(before) < Window THEN Len(before) + 1 ELSE Window
        /\ SubSeq(after, 1, Len(after) - 1)
               = SubSeq(before, Len(before) + 2 - Len(after), Len(before))

C27_ResponseTimeWindow == []C27_HeldEntries /\ [][C27_MostRecent]_vars
(***************************************************************************)
(* The notifications of the dashboard (components/responsive_layout.py)    *)
(***************************************************************************)
\* The types render_notification_system has a box for.
NotificationTypes == {"success", "error", "warning", "info"}

\* add_notification; the timestamp, which nothing reads, is left out.
add_notification(notifications, message, notification_type, auto_dismiss) ==
    Append(notifications,
           [message |-> message, type |-> notification_type,
            auto_dismiss |-> auto_dismiss])

\* list.pop(idx), idx counted from 0.
Pop(list, idx) == SubSeq(list, 1, idx) \o SubSeq(list, idx + 2, Len(list))

\* The loop of render_notification_system from its idx-th pass on: the
\* iterator of enumerate ends when idx reaches the length the list has by
\* then, and a pop moves every later notification one place down.
RECURSIVE render_notifications(_, _, _)
render_notifications(notifications, idx, shown) ==
    IF idx >= Len(notifications)
    THEN [notifications |-> notifications, shown |-> shown]
    ELSE LET notification == notifications[idx + 1]
         IN  render_notifications(
                 IF notification.auto_dismiss THEN Pop(notifications, idx)
                 ELSE notifications,
                 idx + 1,
                 IF notification.type \in NotificationTypes
                 THEN Append(shown, [kind |-> notification.type,
                                     message |-> notification.message])
                 ELSE shown)

InitNotifications ==
    /\ response_text = <<>>
    /\ parsed = Pending
    /\ pc = "dashboard"
    /\ endpoint = "/"
    /\ request = None
    /\ image_index = 0
    /\ outbound = <<>>
    /\ inbound = <<>>
    /\ result = Pending
    /\ http_response = Pending
    /\ generated_images = <<>>
    /\ image_url = None
    /\ session_state = session_state_init
    /\ mcp = None
    /\ page = <<>>
    /\ handlers = <<>>

add_notification_call ==
    /\ Len(session_state.notifications) < MaxNotifications
    /\ \E message \in {"first", "second"}, notification_type \in {"success", "error"},
          auto_dismiss \in BOOLEAN :
          session_state' =
              [session_state EXCEPT !.notifications =
                   add_notification(@, message, notification_type, auto_dismiss)]
    /\ pc' = "added"
    /\ UNCHANGED <<response_text, parsed, endpoint, request, image_index,
                   outbound, inbound, result, http_response, generated_images,
                   image_url, mcp, page, handlers>>

\* One run of render_notification_system.
render_notification_system ==
    /\ LET rendered == render_notifications(session_state.notifications, 0, <<>>)
       IN  /\ session_state' =
                  [session_state EXCEPT !.notifications = rendered.notifications]
           /\ page' = rendered.shown
    /\ pc' = "rendered"
    /\ UNCHANGED <<response_text, parsed, endpoint, request, image_index,
                   outbound, inbound, result, http_response, generated_images,
                   image_url, mcp, handlers>>

NextNotifications == add_notification_call \/ render_notification_system

SpecNotifications == InitNotifications /\ [][NextNotifications]_vars

(***************************************************************************)
(* C28: what one run of render_notification_system delivers                *)
(***************************************************************************)
\* C28: one run of render_notification_system shows every pending
\* notification once, in order, removes those with auto_dismiss true and
\* leaves those with auto_dismiss false in their order.
C28_Delivered ==
    pc' = "rendered"
    => LET before == session_state.notifications
       IN  /\ page' = [i \in 1..Len(before) |->
                          [kind |-> before[i].type, message |-> before[i].message]]
           /\ session_state.notifications' =
                  SelectSeq(before, LAMBDA n : ~n.auto_dismiss)

C28_NotificationDelivery == [][C28_Delivered]_vars
(***************************************************************************)
(* The dashboard: MCPInterface and its table of endpoints                  *)
(***************************************************************************)
\* The base URL MCPInterface starts with, and another one the user types
\* into the "API Base URL" field of the sidebar.
DefaultBaseUrl ==
        <<"h", "t", "t", "p", ":", "/", "/", "6", "9", ".", "5", ".", "1", ".",
      "2", "4", "7", "/", "s", "v", "c", "3">>
OtherBaseUrl ==
        <<"h", "t", "t", "p", ":", "/", "/", "l", "o", "c", "a", "l", "h", "o",
      "s", "t", ":", "8", "0", "0", "0">>

\* The path of every endpoint MCPInterface.__init__ enters in the table.
EndpointPaths ==
    [byteplus_generate |->
             <<"/", "b", "y", "t", "e", "p", "l", "u", "s", "-", "g", "e", "n", "e",
      "r", "a", "t", "e">>,
     byteplus_generate_image |->
             <<"/", "b", "y", "t", "e", "p", "l", "u", "s", "-", "g", "e", "n", "e",
      "r", "a", "t", "e", "-", "i", "m", "a", "g", "e">>,
     generate |->     <<"/", "g", "e", "n", "e", "r", "a", "t", "e">>,
     plan |->     <<"/", "p", "l", "a", "n">>,
     generate_chara |->
             <<"/", "g", "e", "n", "e", "r", "a", "t", "e", "-", "c", "h", "a", "r",
      "a">>]

\* MCPInterface.__init__
MCPInterface ==
    [api_base_url |-> DefaultBaseUrl,
     endpoints |-> [key \in DOMAIN EndpointPaths |->
                        DefaultBaseUrl \o EndpointPaths[key]]]

\* MCPInterface.update_endpoints: the table is written anew with four keys.
update_endpoints(self) ==
    [self EXCEPT !.endpoints =
        [key \in {"byteplus_generate", "generate", "plan", "generate_chara"} |->
             self.api_base_url \o EndpointPaths[key]]]

\* The base URL part of render_sidebar: new_base_url is what the text
\* field holds.
render_sidebar(self, new_base_url) ==
    IF new_base_url # self.api_base_url
    THEN update_endpoints([self EXCEPT !.api_base_url = new_base_url])
    ELSE self

(***************************************************************************)
(* The dashboard: preparing and sending a generation request               *)
(***************************************************************************)
Text2ImgSingle ==
        <<"T", "e", "x", "t", "2", "I", "m", "g", " ", "(", "S", "i", "n", "g",
      "l", "e", " ", "I", "m", "a", "g", "e", ")">>
Text2ImgMultiple ==
        <<"T", "e", "x", "t", "2", "I", "m", "g", " ", "(", "M", "u", "l", "t",
      "i", "p", "l", "e", " ", "I", "m", "a", "g", "e", "s", ")">>
Img2ImgSingleReference ==
        <<"I", "m", "g", "2", "I", "m", "g", " ", "(", "S", "i", "n", "g", "l",
      "e", " ", "R", "e", "f", "e", "r", "e", "n", "c", "e", ")">>
Img2ImgMultipleReferences ==
        <<"I", "m", "g", "2", "I", "m", "g", " ", "(", "M", "u", "l", "t", "i",
      "p", "l", "e", " ", "R", "e", "f", "e", "r", "e", "n", "c", "e", "s",
      ")">>
Img2ImgExpand ==
        <<"I", "m", "g", "2", "I", "m", "g", " ", "(", "E", "x", "p", "a", "n",
      "d", " ", "t", "o", " ", "M", "u", "l", "t", "i", "p", "l", "e", ")">>

\* The entries of the "Choose generation type" box.
GenerationTypes ==
    {Text2ImgSingle, Text2ImgMultiple, Img2ImgSingleReference,
     Img2ImgMultipleReferences, Img2ImgExpand}

K_Multiple ==     <<"M", "u", "l", "t", "i", "p", "l", "e">>
K_Img2Img ==     <<"I", "m", "g", "2", "I", "m", "g">>
K_MultipleReferences ==
        <<"M", "u", "l", "t", "i", "p", "l", "e", " ", "R", "e", "f", "e", "r",
      "e", "n", "c", "e", "s">>

\* rec with key set to value.
With(rec, key, value) ==
    [k \in DOMAIN rec \cup {key} |-> IF k = key THEN value ELSE rec[k]]

\* What render_advanced_settings stores with the sliders untouched and no
\* fixed seed; guidance_scale 7.5 is in thousandths.
AdvancedSettings(response_format) ==
    [model |-> "seedream-v4", guidance_scale |-> Float(7500), steps |-> 50,
     seed |-> None, response_format |-> response_format,
     output_format |-> "png", quality |-> None]

\* st.session_state.uploaded_images as render_image_upload_section leaves
\* it when the user gave as many files as the type takes.
UploadedImages(generation_type) ==
    IF Contains(generation_type, K_MultipleReferences)
    THEN <<"data:image/png;base64,AAAA", "data:image/png;base64,BBBB">>
    ELSE <<"data:image/png;base64,AAAA">>

\* prepare_request_data; state is st.session_state.
prepare_request_data(generation_type, prompt, negative_prompt, size, sequential_mode, num_images, state) ==
    LET base == [prompt |-> prompt, size |-> size,
                 sequential_image_generation |-> sequential_mode]
        negative == IF negative_prompt # <<>>
                    THEN With(base, "negative_prompt", negative_prompt) ELSE base
        images == IF Contains(generation_type, K_Img2Img)
                     /\ state.uploaded_images # <<>>
                  THEN With(negative, "image", state.uploaded_images)
                  ELSE negative
        multiple == IF Contains(generation_type, K_Multiple)
                    THEN With(images, "sequential_image_generation_options",
                              [max_images |-> num_images])
                    ELSE images
        advanced == state.advanced_settings
        seed == IF advanced # None /\ advanced.seed # None
                THEN With(multiple, "seed", advanced.seed) ELSE multiple
        guidance == IF advanced # None /\ advanced.guidance_scale.float # 0
                    THEN With(seed, "guidance_scale", advanced.guidance_scale)
                    ELSE seed
    IN  IF advanced # None /\ advanced.steps # 0
        THEN With(guidance, "steps", advanced.steps) ELSE guidance

\* timeout_duration with the test on the sequential mode of the request.
timeout_duration_BySequentialMode(request_data) ==
    IF request_data.sequential_image_generation = "auto" THEN 300 ELSE 120

\* timeout_duration
timeout_duration(request_data) ==
    IF "sequential_image_generation_options" \in DOMAIN request_data
    THEN 300 ELSE 120

\* requests.post(url, json=..., params=..., timeout=...) of the dashboard.
DashboardPost(url, json, params, timeout) ==
    [method |-> "POST", url |-> url, json |-> json, params |-> params,
     timeout |-> timeout]

\* What comes back from the back end or from whatever serves the base URL:
\* requests raises Timeout or ConnectionError, or a response arrives.
Timeout == [kind |-> "exception", error |-> "Timeout"]
ConnectionError == [kind |-> "exception", error |-> "ConnectionError"]

K_Image ==     <<"i", "m", "a", "g", "e", "/">>
ImagePng ==     <<"i", "m", "a", "g", "e", "/", "p", "n", "g">>

BackendJson(body) ==
    [kind |-> "http", status_code |-> 200, content_type |-> ApplicationJson,
     json |-> body]

BackendError(status_code) ==
    [kind |-> "http", status_code |-> status_code,
     content_type |-> ApplicationJson, text |-> <<"detail">>]

\* The 200 of /byteplus-generate-image with its X-Total-Images and
\* X-Image-Index headers.
BackendImage(content, total_images, index) ==
    [kind |-> "http", status_code |-> 200, content_type |-> ImagePng,
     content |-> content, x_total_images |-> total_images,
     x_image_index |-> index]

GenerateReplies ==
    {Timeout, ConnectionError, BackendError(500),
     BackendJson([data |-> TwoItems, usage |-> Usage2])}

\* The last one is a 200 of a server that is not this back end: its
\* X-Total-Images is no number.
DirectReplies ==
    {Timeout, ConnectionError, BackendError(500),
     BackendImage(PngOf("https://cdn/2.png"), <<"2">>, <<"0">>),
     BackendImage(PngOf("https://cdn/2.png"), <<"t", "w", "o">>, <<"0">>)}

\* int(text) for text without sign or blanks.
int_of(text) ==
    IF text # <<>> /\ \A i \in 1..Len(text) : IsDigit(text[i])
    THEN Returned(DigitsValue(text))
    ELSE Raised([text |-> "ValueError"])

\* time.time() - start_time: a call that times out takes the time it was
\* given, any other a second.
ResponseTime(reply, timeout) == IF reply = Timeout THEN timeout ELSE QuickTime

\* handle_generation_response
handle_generation_response(response) ==
    IF Contains(Lower(response.content_type), ApplicationJson)
    THEN IF "json" \in DOMAIN response
         THEN [success |-> TRUE, result |-> response.json]
         ELSE [success |-> FALSE, result |-> "Error processing response"]
    ELSE IF Contains(Lower(response.content_type), K_Image)
    THEN [success |-> TRUE,
          result |-> [images |-> <<[data_url |-> response.content]>>,
                      metadata |-> [format |-> Lower(response.content_type),
                                    response_type |-> "direct_image"]]]
    ELSE IF "json" \in DOMAIN response
    THEN [success |-> TRUE, result |-> response.json]
    ELSE [success |-> TRUE,
          result |-> [images |-> <<[data_url |-> response.content]>>,
                      metadata |-> [format |-> ImagePng,
                                    response_type |-> "assumed_image"]]]

\* One call of log_api_performance and one of update_metrics, as a pair of
\* argument lists.
Outcome(name, response_time, success) ==
    [logged |-> <<[endpoint |-> name, response_time |-> response_time,
                   success |-> success]>>,
     updated |-> <<[success |-> success, response_time |-> response_time]>>]

\* The except clauses of both request functions.
Failure(name, reply, response_time, calls, before) ==
    [calls |-> calls,
     logged |-> before.logged \o Outcome(name, response_time, FALSE).logged,
     updated |-> before.updated \o Outcome(name, response_time, FALSE).updated,
     return |-> [success |-> FALSE,
                 result |-> IF reply = Timeout THEN "Request timed out"
                            ELSE IF reply = ConnectionError
                            THEN "Cannot connect to API server"
                            ELSE "Unexpected error"]]

NoOutcome == [logged |-> <<>>, updated |-> <<>>]

\* make_generation_request, given what requests.post comes back with: the
\* calls made, the arguments of every log_api_performance and
\* update_metrics call in order, and the tuple returned.
make_generation_request(self, request_data, reply) ==
    LET name == "byteplus_generate"
        timeout == timeout_duration(request_data)
        response_time == ResponseTime(reply, timeout)
    IN  IF name \notin DOMAIN self.endpoints
        THEN Failure(name, None, QuickTime, <<>>, NoOutcome)
        ELSE LET calls == <<DashboardPost(self.endpoints[name], request_data,
                                          None, timeout)>>
             IN  IF reply.kind = "exception"
                 THEN Failure(name, reply, response_time, calls, NoOutcome)
                 ELSE LET success == reply.status_code = 200
                      IN  [calls |-> calls,
                           logged |-> Outcome(name, response_time, success).logged,
                           updated |-> Outcome(name, response_time, success).updated,
                           return |-> IF success
                                      THEN handle_generation_response(reply)
                                      ELSE [success |-> FALSE,
                                            result |-> "API Error"]]

\* make_direct_image_request, likewise.  The headers are read after the
\* outcome has been recorded, inside the same try.
make_direct_image_request(self, request_data, index, reply) ==
    LET name == "byteplus_generate_image"
        timeout == timeout_duration(request_data)
        response_time == ResponseTime(reply, timeout)
    IN  IF name \notin DOMAIN self.endpoints
        THEN Failure(name, None, QuickTime, <<>>, NoOutcome)
        ELSE LET calls == <<DashboardPost(self.endpoints[name], request_data,
                                          [image_index |-> index], timeout)>>
             IN  IF reply.kind = "exception"
                 THEN Failure(name, reply, response_time, calls, NoOutcome)
                 ELSE LET success == reply.status_code = 200
                          recorded == Outcome(name, response_time, success)
                      IN  IF ~success
                          THEN [calls |-> calls, logged |-> recorded.logged,
                                updated |-> recorded.updated,
                                return |-> [success |-> FALSE,
                                            result |-> "API Error"]]
                          ELSE IF ~int_of(reply.x_total_images).ok
                                  \/ ~int_of(reply.x_image_index).ok
                          THEN Failure(name, None, response_time, calls, recorded)
                          ELSE [calls |-> calls, logged |-> recorded.logged,
                                updated |-> recorded.updated,
                                return |->
                                  [success |-> TRUE,
                                   result |->
                                     [data |-> <<
                                       [b64_json |-> B64Of(reply.content),
                                        metadata |->
                                          [format |-> reply.content_type,
                                           index |-> int_of(reply.x_image_index).value,
                                           total |-> int_of(reply.x_total_images).value,
                                           response_type |-> "direct_image"]]>>]]]
(***************************************************************************)
(* The dashboard: showing a result                                         *)
(***************************************************************************)
\* The grid item display_generation_results makes of the idx-th entry of
\* the result, or an exception raised on the way.  A string entry is a
\* data URL, which is decoded and opened as an image.
GridItem(idx, image_data) ==
    LET grid_item == [caption |-> idx, metadata |-> [Index |-> idx]]
    IN  IF "data_url" \in DOMAIN image_data
        THEN IF IsValidImage(image_data.data_url)
             THEN Returned(With(With(grid_item, "image", image_data.data_url),
                                "base64", B64Of(image_data.data_url)))
             ELSE Raised([text |-> "cannot identify image file"])
        ELSE IF "url" \in DOMAIN image_data
        THEN Returned(With(With(grid_item, "url", image_data.url),
                           "image", image_data.url))
        ELSE IF "image" \in DOMAIN image_data
        THEN Returned(With(With(grid_item, "url", image_data.image),
                           "image", image_data.image))
        ELSE Returned(grid_item)

\* What render_responsive_image_grid puts on the page for one grid item.
GridCell(grid_item) ==
    IF "image" \in DOMAIN grid_item
    THEN [kind |-> "image", source |-> grid_item.image,
          caption |-> grid_item.caption]
    ELSE IF "url" \in DOMAIN grid_item
    THEN [kind |-> "image", source |-> grid_item.url,
          caption |-> grid_item.caption]
    ELSE [kind |-> "error", message |-> "No image source found",
          caption |-> grid_item.caption]

\* The images display_generation_results takes from a result.
ImagesOf(generated) ==
    IF "images" \in DOMAIN generated THEN generated.images
    ELSE IF "image_urls" \in DOMAIN generated THEN generated.image_urls
    ELSE IF "data" \in DOMAIN generated THEN generated.data
    ELSE <<>>

\* display_generation_results from its idx-th image on: an entry that
\* raises is reported and left out of the grid, and the grid is rendered
\* when all entries are through.
RECURSIVE display_images(_, _, _, _)
display_images(images, idx, errors, grid) ==
    IF idx > Len(images) THEN errors \o grid
    ELSE LET made == GridItem(idx, images[idx])
         IN  IF made.ok
             THEN display_images(images, idx + 1, errors,
                                 Append(grid, GridCell(made.value)))
             ELSE display_images(images, idx + 1,
                                 Append(errors,
                                        [kind |-> "error",
                                         message |-> "Error processing image",
                                         caption |-> idx]),
                                 grid)

\* display_generation_results: what it puts on the page.
display_generation_results(generated) ==
    IF DOMAIN generated = {} THEN <<[kind |-> "warning", message |-> "No results to display"]>>
    ELSE IF ImagesOf(generated) = <<>>
    THEN <<[kind |-> "warning", message |-> "No images found in the result"]>>
    ELSE display_images(ImagesOf(generated), 1, <<>>, <<>>)

\* update_generation_stats, without the rate it derives from the counts.
update_generation_stats(stats, success, num_images) ==
    IF success
    THEN [stats EXCEPT !.successful_generations = @ + 1,
                       !.total_images = @ + num_images]
    ELSE [stats EXCEPT !.failed_generations = @ + 1]

(***************************************************************************)
(* The dashboard: script runs.  Every interaction runs main() again: the   *)
(* pending notifications are rendered, MCPInterface is built anew and      *)
(* render_sidebar brings it to the base URL the text field holds, then the *)
(* page of the run does its work.                                          *)
(***************************************************************************)
RECURSIVE LogAll(_, _)
LogAll(metrics, logged) ==
    IF logged = <<>> THEN metrics
    ELSE LogAll(record_api_call(metrics, Head(logged).endpoint,
                                Head(logged).response_time, Head(logged).success),
                Tail(logged))

RECURSIVE UpdateAll(_, _)
UpdateAll(metrics, updated) ==
    IF updated = <<>> THEN metrics
    ELSE UpdateAll(update_metrics(metrics, Head(updated).success,
                                  Head(updated).response_time),
                   Tail(updated))

\* The sizes of a multi-image request the slider is set to.
NumImages == {2, 4}

ResponseFormats == {"JSON (Standard)", "Direct Image"}

InitDashboard ==
    /\ response_text = <<>>
    /\ parsed = Pending
    /\ pc = "dashboard"
    /\ endpoint = "/"
    /\ request = None
    /\ image_index = 0
    /\ outbound = <<>>
    /\ inbound = <<>>
    /\ result = Pending
    /\ http_response = Pending
    /\ generated_images = <<>>
    /\ image_url = None
    /\ session_state = [session_state_init EXCEPT !.new_base_url = DefaultBaseUrl]
    /\ mcp = MCPInterface
    /\ page = <<>>
    /\ handlers = <<>>

\* The user types another base URL into the sidebar.
edit_api_base_url ==
    /\ \E new_base_url \in {DefaultBaseUrl, OtherBaseUrl} :
          /\ new_base_url # session_state.new_base_url
          /\ LET rendered == render_notifications(session_state.notifications,
                                                  0, <<>>)
             IN  /\ session_state' =
                        [session_state EXCEPT !.new_base_url = new_base_url,
                                              !.notifications = rendered.notifications]
                 /\ page' = rendered.shown
          /\ mcp' = render_sidebar(MCPInterface, new_base_url)
    /\ UNCHANGED <<response_text, parsed, pc, endpoint, request, image_index,
                   outbound, inbound, result, http_response, generated_images,
                   image_url, handlers>>

\* The user presses "Clear Metrics History" on the performance dashboard.
clear_metrics_history ==
    /\ session_state.performance_metrics.generation_stats.total_requests > 0
    /\ LET rendered == render_notifications(session_state.notifications, 0, <<>>)
       IN  /\ session_state' =
                  [session_state EXCEPT
                       !.performance_metrics = performance_metrics_init,
                       !.notifications = rendered.notifications]
           /\ page' = rendered.shown
    /\ mcp' = render_sidebar(MCPInterface, session_state.new_base_url)
    /\ UNCHANGED <<response_text, parsed, pc, endpoint, request, image_index,
                   outbound, inbound, result, http_response, generated_images,
                   image_url, handlers>>

\* The user presses "Generate Images" with a type, a sequential mode, a
\* number of images and a response format chosen, and the request comes
\* back.
generate_images_click ==
    /\ session_state.generation_stats.successful_generations
           + session_state.generation_stats.failed_generations < MaxRequests
    /\ \E generation_type \in GenerationTypes, sequential_mode \in {"auto", "disabled"},
          num_images \in NumImages \cup {1}, response_format \in ResponseFormats,
          reply \in GenerateReplies \cup DirectReplies :
          LET multiple == Contains(generation_type, K_Multiple)
              use_direct_image == response_format = "Direct Image"
              rendered == render_notifications(session_state.notifications, 0, <<>>)
              self == render_sidebar(MCPInterface, session_state.new_base_url)
              state == [session_state EXCEPT
                           !.generation_type_selector = generation_type,
                           !.sequential_mode_selector = sequential_mode,
                           !.num_images = num_images,
                           !.advanced_settings = AdvancedSettings(response_format),
                           !.uploaded_images =
                               IF Contains(generation_type, K_Img2Img)
                               THEN UploadedImages(generation_type) ELSE <<>>,
                           !.notifications = rendered.notifications]
              request_data ==
                  prepare_request_data(generation_type, W_cat, <<>>, "2K",
                                       sequential_mode, num_images, state)
              made == IF use_direct_image
                      THEN make_direct_image_request(self, request_data, 0, reply)
                      ELSE make_generation_request(self, request_data, reply)
              success == made.return.success
          IN  /\ multiple => num_images \in NumImages
              /\ ~multiple => num_images = 1 /\ sequential_mode = "disabled"
              /\ reply \in (IF use_direct_image THEN DirectReplies
                             ELSE GenerateReplies)
              /\ mcp' = self
              /\ outbound' = made.calls
              /\ inbound' = IF made.calls = <<>> THEN <<>> ELSE <<reply>>
              /\ result' = made.return
              /\ session_state' =
                     [state EXCEPT
                          !.performance_metrics = LogAll(@, made.logged),
                          !.api_metrics = UpdateAll(@, made.updated),
                          !.notifications =
                              IF success
                              THEN add_notification(@, "Images generated successfully!",
                                                    "success", TRUE)
                              ELSE add_notification(@, "Generation failed",
                                                    "error", TRUE),
                          !.generation_results =
                              IF success
                              THEN Append(@, [type |-> generation_type,
                                              prompt |-> W_cat,
                                              result |-> made.return.result,
                                              settings |->
                                                  [size |-> "2K",
                                                   sequential_mode |-> sequential_mode,
                                                   num_images |-> num_images]])
                              ELSE @,
                          !.generation_stats =
                              update_generation_stats(@, success,
                                  IF success THEN num_images ELSE 0)]
              /\ page' = rendered.shown
                         \o (IF success
                             THEN <<[kind |-> "success",
                                     message |-> "Images generated successfully!"]>>
                                  \o display_generation_results(made.return.result)
                             ELSE <<[kind |-> "error",
                                     message |-> "Generation failed"]>>)
    /\ UNCHANGED <<response_text, parsed, pc, endpoint, request, image_index,
                   http_response, generated_images, image_url, handlers>>

NextDashboard ==
    \/ edit_api_base_url
    \/ clear_metrics_history
    \/ generate_images_click

SpecDashboard == InitDashboard /\ [][NextDashboard]_vars
(***************************************************************************)
(* C24: the timeout of a dashboard request                                 *)
(***************************************************************************)
\* The request of the last click, as the widgets held it.
Requested == outbound # <<>> /\ pc = "dashboard" /\ mcp # None

SingleImageTypes == {Text2ImgSingle, Img2ImgSingleReference}

\* C24: a request of the dashboard, to /byteplus-generate and to
\* /byteplus-generate-image alike, is sent with a timeout of 300 seconds
\* when it asks for several images, which the three Multiple types do
\* whatever their sequential mode, and of 120 seconds when it asks for one.
C24_TimeoutSelection ==
    Requested
    => /\ outbound[1].timeout =
              IF session_state.num_images > 1 THEN 300 ELSE 120
       /\ session_state.num_images = 1
              <=> session_state.generation_type_selector \in SingleImageTypes
       /\ session_state.generation_type_selector \in SingleImageTypes
              => outbound[1].timeout = 120

\* A direct-image request for four images of a Multiple type with the
\* sequential mode disabled has gone out with 300 seconds.
C24_Witness ==
    /\ Requested
    /\ outbound[1].params # None
    /\ session_state.num_images = 4
    /\ session_state.sequential_mode_selector = "disabled"
    /\ session_state.generation_type_selector \notin SingleImageTypes
    /\ outbound[1].timeout = 300
    /\ inbound[1] = Timeout

(***************************************************************************)
(* C26: the two books of call metrics                                      *)
(***************************************************************************)
MonitorStats == session_state.performance_metrics.generation_stats
LegacyStats == session_state.api_metrics

Balanced(stats) ==
    stats.total_requests = stats.successful_requests + stats.failed_requests

C26_BooksAgree ==
    /\ Balanced(MonitorStats)
    /\ Balanced(LegacyStats)
    /\ MonitorStats.total_requests = LegacyStats.total_requests
    /\ MonitorStats.successful_requests = LegacyStats.successful_requests
    /\ MonitorStats.failed_requests = LegacyStats.failed_requests

\* A step in which make_generation_request or make_direct_image_request ran.
C26_OneOutcomeEach ==
    result' # result
    => /\ MonitorStats.total_requests' = MonitorStats.total_requests + 1
       /\ LegacyStats.total_requests' = LegacyStats.total_requests + 1
       /\ MonitorStats.successful_requests' - MonitorStats.successful_requests
              = LegacyStats.successful_requests' - LegacyStats.successful_requests

\* C26: every run of make_generation_request or make_direct_image_request
\* records one outcome with the performance monitor and one in api_metrics,
\* both with the same success flag, and at all times either book has
\* total_requests = successful_requests + failed_requests and the two agree
\* on all three counters.
C26_CallAccounting == []C26_BooksAgree /\ [][C26_OneOutcomeEach]_vars

(***************************************************************************)
(* C29: the table of endpoints after a change of the base URL              *)
(***************************************************************************)
\* C29: the table of endpoints has the five keys it was constructed with,
\* each the base URL followed by its path, also after update_endpoints.
C29_EndpointsPreserved ==
    mcp # None
    => /\ DOMAIN mcp.endpoints = DOMAIN EndpointPaths
       /\ \A key \in DOMAIN EndpointPaths :
              mcp.endpoints[key] = mcp.api_base_url \o EndpointPaths[key]

(***************************************************************************)
(* C30: showing a direct image                                             *)
(***************************************************************************)
GridCells == {i \in 1..Len(page) : "caption" \in DOMAIN page[i]}

\* C30: when make_direct_image_request has succeeded, the page shows one
\* grid item, and it is the image, not the report of a missing source.
C30_DirectImageDisplayed ==
    (/\ Requested
     /\ outbound[1].params # None
     /\ result.success)
    => /\ Cardinality(GridCells) = 1
       /\ \A i \in GridCells : page[i].kind = "image"
====
